---- MODULE Spec2Model ----
(***************************************************************************)
(* ngx-clippy: the action sequencer (ActionQueueService), the sprite       *)
(* animation loop (AnimationService) and the agent component that drives   *)
(* both (ClippyAgentComponent).                                            *)
(*                                                                         *)
(* Spec      the sequencer driven by its callers and by the streams of the *)
(*           tasks it runs                                                 *)
(* SpecGuard Spec plus the direct write of pendingActions that the         *)
(*           service's own test performs (action-queue.service.spec.ts)    *)
(* SpecAnim  the animation loop driven by playAnimation, exitAnimation,    *)
(*           reinitialize and its frame timers                             *)
(* SpecAgent the component: its public operations enqueue tasks, the        *)
(*           sequencer runs them, the idle loop starts on onQueueEmpty$     *)
(* SpecConfig the component while its agent configuration is replaced      *)
(* SpecSpeech the component with the speech balloon: speak, stop,          *)
(*           stopCurrent, closeBalloon and the balloon's timers            *)
(* SpecHold  the held speech, with the balloon's timers firing fairly      *)
(* SpecSound SpecAnim's playback while the browser's audio policy changes  *)
(* SpecHandlers the sequencer with a client whose onCleared$ or            *)
(*           onQueueEmpty$ handler enqueues a task                         *)
(* SpecTimeout the component with play(name, timeout) and its exit timers  *)
(* SpecStream the component with streamed speeches: speakStream, the       *)
(*           source's chunks, end and failure, and unsubscription          *)
(***************************************************************************)
EXTENDS Integers, Sequences, FiniteSets, TLC

\* ------------------------------------------------------------------ bounds
MaxTasks == 3
MaxClears == 2
MaxProgress == 1

\* concatMap is mergeMap with a concurrency of one
Concurrent == 1

TaskIds == 1..MaxTasks

\* What the stream returned by execute() does when it is subscribed:
\*   "async"  stays open: progress values, completion or failure come later
\*   "empty"  completes at once (EMPTY: play of an unknown animation)
\*   "of"     emits one value and completes at once (of(void 0): moveTo, duration 0)
\*   "error"  execute() throws, or the stream fails at once
Kinds == {"async", "empty", "of", "error"}

VARIABLES
  pendingActions,   \* ActionQueueService.pendingActions
  alive,            \* the subscription made by initializeQueue() is open
  active,           \* tasks whose stream concatMap is subscribed to
  buffer,           \* tasks concatMap holds back, oldest first
  kind,             \* task -> what its stream does ("none": not enqueued yet)
  stream,           \* task -> "unborn" | "open" | "complete" | "error"
  taskGen,          \* task -> number of clear() calls before its enqueue
  nextTask,         \* the next task to be enqueued
  execLog,          \* tasks in the order execute() was invoked
  clearCalls,       \* number of clear() calls
  clearedCount,     \* onCleared$ notifications subscribers have received
  queueEmptyCount,  \* onQueueEmpty$ notifications subscribers have received
  tapCount,         \* number of runs of the tap() callback
  progressCount,    \* number of intermediate values emitted by task streams
  handler,          \* a client's subscriber of onQueueEmpty$ or onCleared$ that
                    \* calls enqueue() when it is notified
  last              \* the last operation, with pendingActions and active before it
                    \* and the value it returned ("void" for none)

qvars == <<pendingActions, alive, active, buffer, kind, stream, taskGen, nextTask,
           execLog, clearCalls, clearedCount, queueEmptyCount, tapCount,
           progressCount, handler, last>>

\* the state of the AnimationService
VARIABLES
  animationId,           \* AnimationService.animationId
  currentFrameIndex,     \* AnimationService.currentFrameIndex
  currentFrame,          \* index of the frame object held, -1 for undefined
  currentAnimationName,  \* "" for undefined
  currentAnimationData,  \* <<agent, name>>, << >> for undefined
  shouldExit,            \* AnimationService.shouldExit
  agent,                 \* the agent whose overlays and sounds are set up
  timers,                \* session id -> number of pending setTimeout(processFrame)
  observer,              \* session id -> "none" | "open" | "complete"
  audioBlocked,          \* the browser rejects the promise of HTMLAudioElement.play()
  fx                     \* what the last operation did

avars == <<animationId, currentFrameIndex, currentFrame, currentAnimationName,
           currentAnimationData, shouldExit, agent, timers, observer, audioBlocked, fx>>

\* the state of the ClippyAgentComponent
VARIABLES
  viewInit,              \* ngAfterViewInit() has run: the onQueueEmpty$ handler is subscribed
  destroyed,             \* ngOnDestroy() has run
  isHidden,              \* ClippyAgentComponent.isHidden
  isVisible,             \* the isVisible signal
  idleLoopToken,         \* ClippyAgentComponent.idleLoopToken
  idleLoopSubscription,  \* [to |-> "none"] | [to |-> "anim", id] | [to |-> "timer", id]
  idleTimers,            \* tokens of the pending timer(0) continuations of the idle loop
  sub,                   \* session id -> who subscribed to its stream
  taskAnim,              \* task -> the animation its execute() plays ("" for none)
  exitTimers             \* tasks whose setTimeout(exitAnimation, timeout) is pending

cvars == <<viewInit, destroyed, isHidden, isVisible, idleLoopToken,
           idleLoopSubscription, idleTimers, sub, taskAnim, exitTimers>>

\* the state of the SpeechBalloonService
VARIABLES
  isActive,              \* SpeechBalloonService.isActive
  shouldHold,            \* SpeechBalloonService.shouldHold
  balloonShown,          \* the balloon element has display: block
  hideTimeout,           \* a setTimeout(finishHide) of hide() is pending
  speech,                \* task -> index of its addWord closure (0: no speech), timer pending
  taskHold,              \* task -> the hold option of its speak()
  balloonText,           \* the textContent last written: by which task, up to which word
  streams                \* subscription of speakStream() -> the state of its closure

bvars == <<isActive, shouldHold, balloonShown, hideTimeout, speech, taskHold, balloonText,
           streams>>

\* The sequencer's state as one value, for the operators below.
QState ==
  [pendingActions |-> pendingActions, alive |-> alive, active |-> active,
   buffer |-> buffer, stream |-> stream, execLog |-> execLog,
   clearedCount |-> clearedCount, queueEmptyCount |-> queueEmptyCount,
   tapCount |-> tapCount, handler |-> handler]

QSet(s) ==
  /\ pendingActions' = s.pendingActions
  /\ alive' = s.alive
  /\ active' = s.active
  /\ buffer' = s.buffer
  /\ stream' = s.stream
  /\ execLog' = s.execLog
  /\ clearedCount' = s.clearedCount
  /\ queueEmptyCount' = s.queueEmptyCount
  /\ tapCount' = s.tapCount
  /\ handler' = s.handler

\* The component's state as one value.
CState ==
  [viewInit |-> viewInit, destroyed |-> destroyed, isHidden |-> isHidden,
   isVisible |-> isVisible, idleLoopToken |-> idleLoopToken,
   idleLoopSubscription |-> idleLoopSubscription, idleTimers |-> idleTimers,
   sub |-> sub, taskAnim |-> taskAnim, exitTimers |-> exitTimers]

CSet(s) ==
  /\ viewInit' = s.viewInit
  /\ destroyed' = s.destroyed
  /\ isHidden' = s.isHidden
  /\ isVisible' = s.isVisible
  /\ idleLoopToken' = s.idleLoopToken
  /\ idleLoopSubscription' = s.idleLoopSubscription
  /\ idleTimers' = s.idleTimers
  /\ sub' = s.sub
  /\ taskAnim' = s.taskAnim
  /\ exitTimers' = s.exitTimers

\* The balloon's state as one value.
BState ==
  [isActive |-> isActive, shouldHold |-> shouldHold, balloonShown |-> balloonShown,
   hideTimeout |-> hideTimeout, speech |-> speech, taskHold |-> taskHold,
   balloonText |-> balloonText, streams |-> streams]

BSet(s) ==
  /\ isActive' = s.isActive
  /\ shouldHold' = s.shouldHold
  /\ balloonShown' = s.balloonShown
  /\ hideTimeout' = s.hideTimeout
  /\ speech' = s.speech
  /\ taskHold' = s.taskHold
  /\ balloonText' = s.balloonText
  /\ streams' = s.streams

\* =========================================================== AnimationService

MaxAnimationId == 3
MaxFrameIndex == 4

\* setTimeout(processFrame, this.currentFrame?.duration || 100)
DefaultDuration == 100

\* a frame of an animation; exitBranch = -1 and branches = << >> stand for
\* "not defined", sound = "" for no sound
Frame(d, e, b, s) == [duration |-> d, exitBranch |-> e, branches |-> b, sound |-> s]

Branch(f, w) == [frameIndex |-> f, weight |-> w]

\* The agent data sets of the model. Frames are numbered from 0 as in the code:
\* frame k of an animation is frames[k + 1].
\*   Run       two plain frames, the first with a sound
\*   IdleLoop  exit-branching, two plain frames
\*   Branchy   exit-branching; frame 0 leaves to frame 2 on exit, frame 1
\*             branches back with weights that sum to 90
\*   IdleOne   one plain frame
\*   Greeting  exit-branching; frame 0 branches (weights sum to 100), frame 1
\*             leaves to the final frame 2 on exit
\*   IdleTwo   two plain frames
\*   Hide      two plain frames, played by hide()
AgentIds == {1, 2}

Animations(ag) ==
  IF ag = 1 THEN
    [Run |-> [useExitBranching |-> FALSE,
              frames |-> <<Frame(5, -1, << >>, "boom"), Frame(5, -1, << >>, "")>>],
     IdleLoop |-> [useExitBranching |-> TRUE,
                   frames |-> <<Frame(1, -1, << >>, ""), Frame(1, -1, << >>, "")>>],
     Branchy |-> [useExitBranching |-> TRUE,
                  frames |-> <<Frame(1, 2, << >>, ""),
                               Frame(0, 2, <<Branch(0, 60), Branch(1, 30)>>, "boom"),
                               Frame(1, -1, << >>, "")>>],
     IdleOne |-> [useExitBranching |-> FALSE, frames |-> <<Frame(1, -1, << >>, "")>>]]
  ELSE
    [Run |-> [useExitBranching |-> FALSE,
              frames |-> <<Frame(0, -1, << >>, ""), Frame(1, -1, << >>, ""),
                           Frame(1, -1, << >>, "")>>],
     Greeting |-> [useExitBranching |-> TRUE,
                   frames |-> <<Frame(1, -1, <<Branch(0, 10), Branch(1, 90)>>, ""),
                                Frame(1, 2, << >>, ""),
                                Frame(1, -1, << >>, "")>>],
     IdleTwo |-> [useExitBranching |-> FALSE,
                  frames |-> <<Frame(1, -1, << >>, ""), Frame(1, -1, << >>, "")>>],
     Hide |-> [useExitBranching |-> FALSE,
               frames |-> <<Frame(1, -1, << >>, ""), Frame(1, -1, << >>, "")>>]]

\* the names callers ask for; "Nope" is an animation no agent has
AnimationNames == {"Run", "IdleLoop", "Branchy", "IdleOne", "Greeting", "IdleTwo", "Nope"}

\* the values of Math.random() * 100 the model draws
Draws == {0, 10, 60, 75, 90, 99}

\* the sounds preloadSounds() found a url for
LoadedSounds(ag) == IF ag = 1 THEN {"boom"} ELSE {}

SessionIds == 1..MaxAnimationId

\* What the last operation did. For a processFrame(): the session, whether it
\* was stale, the frame held and the index before it (held, prev), the draw of
\* Math.random() * 100, the frame rendered, the sound played, the state change
\* emitted, whether a timer was set and its delay.
NoFx == [op |-> "none", id |-> 0, stale |-> FALSE, held |-> -1, prev |-> 0,
         random |-> 0, rendered |-> FALSE, frame |-> -1, sound |-> "", rejected |-> FALSE,
         emitted |-> "none", scheduled |-> FALSE, delay |-> 0]

\* The service's playback state as one value.
AState ==
  [animationId |-> animationId, currentFrameIndex |-> currentFrameIndex,
   currentFrame |-> currentFrame, currentAnimationName |-> currentAnimationName,
   currentAnimationData |-> currentAnimationData, shouldExit |-> shouldExit,
   agent |-> agent, timers |-> timers, observer |-> observer,
   audioBlocked |-> audioBlocked, fx |-> fx]

ASet(s) ==
  /\ animationId' = s.animationId
  /\ currentFrameIndex' = s.currentFrameIndex
  /\ currentFrame' = s.currentFrame
  /\ currentAnimationName' = s.currentAnimationName
  /\ currentAnimationData' = s.currentAnimationData
  /\ shouldExit' = s.shouldExit
  /\ agent' = s.agent
  /\ timers' = s.timers
  /\ observer' = s.observer
  /\ audioBlocked' = s.audioBlocked
  /\ fx' = s.fx

\* The state of the three objects as one value: the callbacks they register
\* with each other run inside one another's calls.
\* idlePick is the idle animation Math.random() selects in playNext().
State == QState @@ AState @@ CState @@ BState @@ [idlePick |-> ""]

SetState(s) == QSet(s) /\ ASet(s) /\ CSet(s) /\ BSet(s)

\* hasAnimation(agentData, name)
HasAnimation(ag, name) == name \in DOMAIN Animations(ag)

\* this.currentAnimationData
Data(s) == Animations(s.currentAnimationData[1])[s.currentAnimationData[2]]

NumFrames(s) == Len(Data(s).frames)

\* frames[index]: undefined outside the list
FrameAt(s, index) == IF index >= 0 /\ index < NumFrames(s) THEN index ELSE -1

\* the frame object this.currentFrame
Held(s) == Data(s).frames[s.currentFrame + 1]

\* selectBranch(branches) with Math.random() * 100 = random
RECURSIVE SelectBranchStrict(_, _, _)
SelectBranchStrict(branches, random, fallback) ==
  IF branches = << >> THEN fallback
  ELSE IF random < Head(branches).weight THEN Head(branches).frameIndex
  ELSE SelectBranchStrict(Tail(branches), random - Head(branches).weight, fallback)

RECURSIVE SelectBranch(_, _, _)
SelectBranch(branches, random, fallback) ==
  IF branches = << >> THEN fallback
  ELSE IF random <= Head(branches).weight THEN Head(branches).frameIndex
  ELSE SelectBranch(Tail(branches), random - Head(branches).weight, fallback)

\* getNextFrameIndex()
GetNextFrameIndexBranchFirst(s, random) ==
  IF s.currentAnimationData = << >> \/ s.currentFrame = -1 THEN 0
  ELSE IF Held(s).branches # << >>
    THEN SelectBranch(Held(s).branches, random, s.currentFrameIndex + 1)
  ELSE IF s.shouldExit /\ Held(s).exitBranch # -1 THEN Held(s).exitBranch
  ELSE s.currentFrameIndex + 1

GetNextFrameIndex(s, random) ==
  IF s.currentAnimationData = << >> \/ s.currentFrame = -1 THEN 0
  ELSE IF s.shouldExit /\ Held(s).exitBranch # -1 THEN Held(s).exitBranch
  ELSE IF Held(s).branches # << >>
    THEN SelectBranch(Held(s).branches, random, s.currentFrameIndex + 1)
  ELSE s.currentFrameIndex + 1

\* isAtLastFrame()
IsAtLastFrameLate(s) == s.currentFrameIndex >= NumFrames(s)

IsAtLastFrame(s) == s.currentFrameIndex >= NumFrames(s) - 1

\* isAtLastFrameWithExitBranching()
IsAtLastFrameWithExitBranching(s) == IsAtLastFrame(s) /\ Data(s).useExitBranching

\* useExitBranching && !shouldExit
KeepsWaitingNever(s) == FALSE

KeepsWaiting(s) == Data(s).useExitBranching /\ ~s.shouldExit

\* playFrameSound(): the sound played, "" when the frame has none or it is not loaded
FrameSound(s) ==
  IF s.currentFrame = -1 THEN ""
  ELSE IF Held(s).sound # "" /\ Held(s).sound \in LoadedSounds(s.agent) THEN Held(s).sound
  ELSE ""

\* the promise of this.sounds[soundName].play(): does it reject?
SoundRejected(s) == FrameSound(s) # "" /\ s.audioBlocked

\* the sound that is heard
SoundHeard(s) == IF SoundRejected(s) THEN "" ELSE FrameSound(s)

\* playFrameSound(): this.sounds[soundName].play().catch(() => {}) -- the
\* rejection is handled by an empty callback, no field is written
PlayFrameSoundEndsOnFailure(s) ==
  IF SoundRejected(s) THEN [s EXCEPT !.shouldExit = TRUE] ELSE s

PlayFrameSound(s) == s

\* this.currentFrame?.duration || 100
FrameDelayOfIndex(s) ==
  IF FrameAt(s, s.currentFrameIndex) = -1
       \/ Data(s).frames[s.currentFrameIndex + 1].duration = 0
    THEN DefaultDuration
    ELSE Data(s).frames[s.currentFrameIndex + 1].duration

FrameDelay(s) ==
  IF s.currentFrame = -1 \/ Held(s).duration = 0 THEN DefaultDuration ELSE Held(s).duration

\* processFrame: if (this.animationId !== id) { observer.complete(); return; }
IsCurrentAlways(s, id) == TRUE

IsCurrent(s, id) == s.animationId = id

\* playAnimation(): if (!this.hasAnimation(agentData, animationName)) return EMPTY,
\* before anything is assigned
PlayAnimationResets(s) ==
  [s EXCEPT !.shouldExit = FALSE, !.currentFrameIndex = 0, !.currentFrame = -1,
            !.fx = [NoFx EXCEPT !.op = "playMissing"]]

PlayAnimationEmpty(s) == [s EXCEPT !.fx = [NoFx EXCEPT !.op = "playMissing"]]

\* const id = ++this.animationId
SessionIdReused(s) == IF s.animationId = 0 THEN 1 ELSE s.animationId

SessionId(s) == s.animationId + 1

\* processFrame() that finds a newer session: observer.complete(); return
\* reinitialize(containerRef, mapUrl, agentData, soundUrls): the state after
ReinitializedKeepsId(s, ag) ==
  [s EXCEPT !.shouldExit = TRUE,
            !.currentAnimationName = "",
            !.currentAnimationData = << >>,
            !.currentFrameIndex = 0,
            !.currentFrame = -1,
            !.agent = ag,
            !.fx = [NoFx EXCEPT !.op = "reinitialize"]]

Reinitialized(s, ag) ==
  [s EXCEPT !.animationId = @ + 1,
            !.shouldExit = TRUE,
            !.currentAnimationName = "",
            !.currentAnimationData = << >>,
            !.currentFrameIndex = 0,
            !.currentFrame = -1,
            !.agent = ag,
            !.fx = [NoFx EXCEPT !.op = "reinitialize"]]

ProcessFrameStale(s0, id, op) ==
  [s0 EXCEPT !.observer[id] = "complete",
             !.fx = [NoFx EXCEPT !.op = op, !.id = id, !.stale = TRUE]]

\* does getNextFrameIndex() reach selectBranch(), which draws Math.random()?
DrawsRandom(s) ==
  /\ s.currentAnimationData # << >>
  /\ s.currentFrame # -1
  /\ ~(s.shouldExit /\ Held(s).exitBranch # -1)
  /\ Held(s).branches # << >>

\* processFrame() of the current session up to and including emitStateChange()
\* (each step takes the state before it as an argument)
\*   this.currentFrameIndex = nextIndex;
\*   if (!this.isAtLastFrameWithExitBranching()) this.currentFrame = frames[currentFrameIndex]
Advance(s1) ==
  IF ~IsAtLastFrameWithExitBranching(s1)
    THEN [s1 EXCEPT !.currentFrame = FrameAt(s1, s1.currentFrameIndex)]
    ELSE s1

\*   renderFrame(); playFrameSound();
\*   if (frameChanged && isLastFrame) emitStateChange(observer)
\* for the state s0 the call began with and the state s2 with the new frame
EmitStateChange(s0, s2, id, random, op) ==
  LET frameChanged == s0.currentFrame = -1 \/ s0.currentFrameIndex # s2.currentFrameIndex
      emits == frameChanged /\ IsAtLastFrame(s2)
      state == IF KeepsWaiting(s2) THEN "WAITING" ELSE "EXITED"
  IN [s2 EXCEPT
        !.observer[id] = IF emits /\ state = "EXITED" THEN "complete" ELSE @,
        !.fx = [op |-> op, id |-> id, stale |-> FALSE, held |-> s0.currentFrame,
                prev |-> s0.currentFrameIndex, random |-> random, rendered |-> TRUE,
                frame |-> s2.currentFrame, sound |-> SoundHeard(s2),
                rejected |-> SoundRejected(s2),
                emitted |-> IF emits THEN state ELSE "none",
                scheduled |-> FALSE, delay |-> 0]]

ProcessFrameEmit(s0, id, random, op) ==
  EmitStateChange(s0,
                  PlayFrameSound(
                    Advance([s0 EXCEPT !.currentFrameIndex = GetNextFrameIndex(s0, random)])),
                  id, random, op)

\* the end of processFrame(): if (!isLastFrame || (useExitBranching && !shouldExit))
\* setTimeout(processFrame, ...). isLastFrame is the local computed before
\* emitStateChange(); the fields are read after the observers have run.
ProcessFrameScheduleUnlessExit(s, id, isLastFrame) ==
  LET schedules == ~s.shouldExit /\ (~isLastFrame \/ KeepsWaiting(s)) IN
  IF ~schedules THEN s
  ELSE [s EXCEPT !.timers[id] = @ + 1,
                 !.fx = IF @.id = id /\ @.op \in {"play", "timer"}
                          THEN [@ EXCEPT !.scheduled = TRUE, !.delay = FrameDelay(s)]
                          ELSE @]

ProcessFrameSchedule(s, id, isLastFrame) ==
  LET schedules == ~isLastFrame \/ KeepsWaiting(s) IN
  IF ~schedules THEN s
  ELSE [s EXCEPT !.timers[id] = @ + 1,
                 !.fx = IF @.id = id /\ @.op \in {"play", "timer"}
                          THEN [@ EXCEPT !.scheduled = TRUE, !.delay = FrameDelay(s)]
                          ELSE @]

\* processFrame() of the session that captured id
ProcessFrameEnd(s, id) == ProcessFrameSchedule(s, id, IsAtLastFrame(s))

ProcessFrame(s0, id, random, op) ==
  IF ~IsCurrent(s0, id) THEN ProcessFrameStale(s0, id, op)
  ELSE ProcessFrameEnd(ProcessFrameEmit(s0, id, random, op), id)

\* ======================================================= ClippyAgentComponent

MaxIdleToken == 4

\* who subscribed to the stream of a session: a task of the sequencer (the
\* stream its execute() returned) or the idle loop (with the token it captured)
NoSub == [who |-> "none", task |-> 0, token |-> 0, open |-> FALSE]

NoSubscription == [to |-> "none", id |-> 0]

\* this.getAnimations().filter(name => name.startsWith('Idle'))
IdleAnimations(ag) == DOMAIN Animations(ag) \cap {"IdleLoop", "IdleOne", "IdleTwo"}

\* the outcomes of idleAnimations[Math.floor(Math.random() * idleAnimations.length)]
IdlePick(ag) == IF IdleAnimations(ag) = {} THEN {""} ELSE IdleAnimations(ag)

\* is the subscriber of session id still listening? The sequencer drops a
\* task's stream when the task ends or clear() switches the pipeline.
SubOpen(s, id) ==
  CASE s.sub[id].who = "task" ->
         s.alive /\ s.sub[id].task \in s.active /\ s.stream[s.sub[id].task] = "open"
    [] s.sub[id].who = "idle" -> s.sub[id].open
    [] OTHER -> FALSE

\* cancelIdleLoop(): idleLoopToken++; idleLoopSubscription?.unsubscribe()
CancelIdleLoopKeepsToken(s) ==
  LET l == s.idleLoopSubscription IN
  [s EXCEPT !.sub = IF l.to = "anim" THEN [@ EXCEPT ![l.id].open = FALSE] ELSE @,
            !.idleTimers = IF l.to = "timer" THEN @ \ {l.id} ELSE @,
            !.idleLoopSubscription = NoSubscription]

CancelIdleLoop(s) ==
  LET l == s.idleLoopSubscription IN
  [s EXCEPT !.idleLoopToken = @ + 1,
            !.sub = IF l.to = "anim" THEN [@ EXCEPT ![l.id].open = FALSE] ELSE @,
            !.idleTimers = IF l.to = "timer" THEN @ \ {l.id} ELSE @,
            !.idleLoopSubscription = NoSubscription]

\* the complete callback of playNext(): schedule the next idle step with timer(0)
IdleComplete(s, token) ==
  IF s.isHidden \/ token # s.idleLoopToken THEN s
  ELSE [s EXCEPT !.idleTimers = @ \cup {token},
                 !.idleLoopSubscription = [to |-> "timer", id |-> token]]

\* the notifications a processFrame() gives its observer
EmittedEvents(emitted) ==
  CASE emitted = "WAITING" -> <<"next">>
    [] emitted = "EXITED" -> <<"next", "complete">>
    [] OTHER -> << >>

\* what the subscriber of a new session sees of its first processFrame()
Started(s2) ==
  [st |-> s2, id |-> s2.animationId, evs |-> EmittedEvents(s2.fx.emitted),
   isLast |-> IsAtLastFrame(s2)]

\* playAnimation(agentData, name): shouldExit = false; currentAnimationName =
\* name; currentAnimationData = agentData.animations[name]; currentFrameIndex = 0;
\* currentFrame = undefined
SelectedKeepsExit(s, name) ==
  [s EXCEPT !.currentAnimationName = name,
            !.currentAnimationData = <<s.agent, name>>,
            !.currentFrameIndex = 0,
            !.currentFrame = -1]

Selected(s, name) ==
  [s EXCEPT !.shouldExit = FALSE,
            !.currentAnimationName = name,
            !.currentAnimationData = <<s.agent, name>>,
            !.currentFrameIndex = 0,
            !.currentFrame = -1]

\* playAnimation(agentData, name) subscribed at once by who: the state after
\* the first processFrame() has emitted, the session (0 for EMPTY), the
\* notifications given inside subscribe() and the isLastFrame that
\* processFrame() holds for its setTimeout decision
StartSession(s, name, who) ==
  IF ~HasAnimation(s.agent, name)
    THEN [st |-> PlayAnimationEmpty(s), id |-> 0, evs |-> <<"complete">>, isLast |-> FALSE]
  ELSE IF SessionId(s) \notin SessionIds
    THEN [st |-> [s EXCEPT !.animationId = SessionId(s)], id |-> 0, evs |-> << >>,
          isLast |-> FALSE]
  ELSE
    Started(ProcessFrameEmit([Selected(s, name) EXCEPT !.animationId = SessionId(s),
                                                       !.observer[SessionId(s)] = "open",
                                                       !.sub[SessionId(s)] = who],
                             SessionId(s), 0, "play"))

\* subscribe({ complete: ... }) of playNext() on the started session r: the
\* complete callback runs inside it when the session ends at once, then
\* processFrame() ends, then this.idleLoopSubscription = <the subscription>
IdleSubscribed(r, token) ==
  IF r.id = 0 THEN r.st
  ELSE [ProcessFrameSchedule(
          IF "complete" \in {r.evs[i] : i \in DOMAIN r.evs}
            THEN IdleComplete([r.st EXCEPT !.sub[r.id].open = FALSE], token)
            ELSE r.st,
          r.id, r.isLast)
        EXCEPT !.idleLoopSubscription = [to |-> "anim", id |-> r.id]]

\* playNext() of the idle loop that captured token
PlayNextUnchecked(s, token) ==
  IF IdleAnimations(s.agent) = {} THEN s
  ELSE IdleSubscribed(StartSession(s, s.idlePick,
                                   [who |-> "idle", task |-> 0, token |-> token,
                                    open |-> TRUE]),
                      token)

PlayNext(s, token) ==
  IF s.isHidden \/ token # s.idleLoopToken THEN s
  ELSE IF IdleAnimations(s.agent) = {} THEN s
  ELSE IdleSubscribed(StartSession(s, s.idlePick,
                                   [who |-> "idle", task |-> 0, token |-> token,
                                    open |-> TRUE]),
                      token)

\* const token = this.idleLoopToken; ...; playNext()  (after cancelIdleLoop())
IdleLoopFrom(c) == PlayNext(c, c.idleLoopToken)

\* startIdleLoop()
StartIdleLoop(s) == IdleLoopFrom(CancelIdleLoop(s))

\* setupQueueEmptyHandler(): tap(() => { if (!this.isHidden) this.startIdleLoop(); })
QueueEmptyHandler(s) ==
  IF s.viewInit /\ ~s.destroyed /\ ~s.isHidden THEN StartIdleLoop(s) ELSE s

\* The notifications a stream gives synchronously when it is subscribed.
SyncEvents(k) ==
  CASE k = "empty" -> <<"complete">>
    [] k = "of" -> <<"next", "complete">>
    [] k = "error" -> <<"error">>
    [] OTHER -> << >>

EndState(k) == IF k = "error" THEN "error" ELSE IF k = "async" THEN "open" ELSE "complete"

\* The tasks of the component:
\*   "play"  play(name): the stream of playAnimation(agentData, name)
\*   "hide"  hide(): the stream of playAnimation(agentData, 'Hide') with
\*           tap(() => isVisible.set(false))
\*   "speak" speak(text, {hold}): the stream of speechBalloonService.speak()
\* delay() and moveTo() give streams that end later ("async") or at once ("of").
\*   "playUntimed"  play(name, 0): the same without the exit timer
AgentKinds == {"play", "hide", "playUntimed"}

\* play(animationName, timeout = 5000)
DefaultTimeout == 5000

\* execute() of play(): timeout > 0 ? setTimeout(() => exitAnimation(), timeout) : undefined
ArmExitTimer(s, id, k) ==
  IF k = "play" THEN [s EXCEPT !.exitTimers = @ \cup {id}] ELSE s

\* finalize(() => { if (timeoutId !== undefined) clearTimeout(timeoutId) }) of
\* the streams of the tasks ids, which have completed or been unsubscribed
FinalizeNever(s, ids) == s

Finalize(s, ids) == [s EXCEPT !.exitTimers = @ \ ids]

\* text.split(/( +|\n)/).length of the text spoken ("a b": two words and a gap)
SpeechWords == 3

NoSpeech == [index |-> 0, timer |-> FALSE]

\* the else branch of addWord() of the speech of task id: write the words up
\* to index, index += 2, setTimeout(addWord)
AddWordWrites(s, id) ==
  [s EXCEPT !.balloonText = [task |-> id, words |-> s.speech[id].index],
            !.speech[id] = [index |-> @.index + 2, timer |-> TRUE]]

\* speechBalloonService.speak(text, hold) subscribed at once: the balloon is
\* shown, animateText() sets isActive and runs the first addWord()
SpeakStart(s, id) ==
  AddWordWrites([s EXCEPT !.shouldHold = s.taskHold[id],
                          !.balloonShown = TRUE,
                          !.isActive = TRUE,
                          !.stream[id] = "open",
                          !.speech[id] = [index |-> 1, timer |-> FALSE]],
                id)

\* the stream of task id is that of the started session r
TaskSubscribed(r, id) ==
  IF "complete" \in {r.evs[i] : i \in DOMAIN r.evs}
    THEN [r EXCEPT !.st = Finalize([@ EXCEPT !.stream[id] = "complete"], {id})]
    ELSE [r EXCEPT !.st = [@ EXCEPT !.stream[id] = "open"]]

\* action.execute() of task id, subscribed by concatMap
Execute(s, id, k) ==
  IF k \in AgentKinds
    THEN TaskSubscribed(StartSession(ArmExitTimer(s, id, k), s.taskAnim[id],
                                     [who |-> "task", task |-> id, token |-> 0,
                                      open |-> TRUE]),
                        id)
  ELSE IF k = "speak"
    THEN [st |-> SpeakStart(s, id), id |-> 0, evs |-> << >>, isLast |-> FALSE]
  ELSE [st |-> [s EXCEPT !.stream[id] = EndState(k)], id |-> 0, evs |-> SyncEvents(k),
        isLast |-> FALSE]

\* the operators of the task's own pipe: hide() hides the container on every value
TaskPipe(s, id, evs, kd) ==
  IF kd[id] = "hide" /\ "next" \in {evs[i] : i \in DOMAIN evs}
    THEN [s EXCEPT !.isVisible = FALSE]
    ELSE s

\* ============================================================ ActionQueueService

\* ------------------------------------------------------- the pipeline

\* tap(() => { if (pendingActions > 0) pendingActions--; ... }): the decrement
TapDecrementUnguarded(p) == p - 1

TapDecrement(p) == IF p > 0 THEN p - 1 ELSE p

\* tap(...): if (pendingActions === 0) queueEmpty$.next()
TapEmitsAlways(p) == TRUE

TapEmits(p) == p = 0

RECURSIVE OuterNext(_, _, _)

\* No client handler. A handler is subscribed to on ("empty": onQueueEmpty$,
\* "cleared": onCleared$) and calls enqueue(task) on its first notification
\* ("done" afterwards); the stream of the task is of kind kind. rxjs is the
\* major version of the library the build links.
NoHandler == [on |-> "none", task |-> 0, kind |-> "none", rxjs |-> 7]

RxjsVersions == {6, 7}

\* the kinds of the tasks as the handler's enqueue() finds them
HandlerKinds(s, kd) == [kd EXCEPT ![s.handler.task] = s.handler.kind]

\* the client's subscriber of onQueueEmpty$: enqueue(task), i.e.
\* pendingActions++; actionQueue$.next(task)
EmptyHandler(s, kd) ==
  IF s.handler.on # "empty" THEN s
  ELSE OuterNext([s EXCEPT !.handler.on = "done", !.pendingActions = @ + 1],
                 s.handler.task, HandlerKinds(s, kd))

\* queueEmpty$.next(): the component's subscriber, then the client's
QueueEmptyNext(s, kd) ==
  EmptyHandler(QueueEmptyHandler([s EXCEPT !.queueEmptyCount = @ + 1]), kd)

Tap(s, kd) ==
  LET p == TapDecrement(s.pendingActions)
      t == [s EXCEPT !.pendingActions = p, !.tapCount = @ + 1]
  IN IF TapEmits(p)
       THEN QueueEmptyNext(t, kd)
       ELSE t

\* execute().pipe(ignoreElements(), endWith(void 0)): what reaches tap() for
\* one notification of the task's stream
InnerPipeNoIgnore(ev) ==
  CASE ev = "next" -> <<"next">>
    [] ev = "complete" -> <<"next", "complete">>
    [] OTHER -> <<"error">>

InnerPipe(ev) ==
  CASE ev = "next" -> << >>
    [] ev = "complete" -> <<"next", "complete">>
    [] OTHER -> <<"error">>

\* An error reaches subscribe(), which has no error handler: the whole
\* subscription (reset$, actionQueue$, the running task) is torn down.
Die(s) == [Finalize(s, s.active) EXCEPT !.alive = FALSE, !.active = {}, !.buffer = << >>]

\* concatMap: may the next task be subscribed now?
CanStartMerge(s) == TRUE

CanStart(s) == Cardinality(s.active) < Concurrent

RECURSIVE Downstream(_, _, _, _)
RECURSIVE Notify(_, _, _, _)
RECURSIVE DoInnerSub(_, _, _)
RECURSIVE InnerSubscribed(_, _, _)

\* concatMap's inner subscriber: one notification coming out of the inner pipe
Downstream(s, id, ds, kd) ==
  IF ds = << >> \/ ~s.alive \/ id \notin s.active THEN s
  ELSE LET d == Head(ds) IN
       CASE d = "next" -> Downstream(Tap(s, kd), id, Tail(ds), kd)
         [] d = "complete" ->
              \* active--; while (buffer.length && active < concurrent) doInnerSub(buffer.shift())
              LET t == [s EXCEPT !.active = @ \ {id}] IN
              IF t.buffer # << >> /\ CanStart(t)
                THEN DoInnerSub([t EXCEPT !.buffer = Tail(@)], Head(t.buffer), kd)
                ELSE t
         [] OTHER -> Die(s)

\* the notifications evs of task id's stream, in order
Notify(s, id, evs, kd) ==
  IF evs = << >> THEN s
  ELSE Notify(Downstream(s, id, InnerPipe(Head(evs)), kd), id, Tail(evs), kd)

\* the stream r of task id gives its synchronous notifications; the first
\* processFrame() of a played animation ends after its observers have run
InnerSubscribed(r, id, kd) ==
  IF r.id # 0
    THEN ProcessFrameSchedule(Notify(TaskPipe(r.st, id, r.evs, kd), id, r.evs, kd),
                              r.id, r.isLast)
    ELSE Notify(TaskPipe(r.st, id, r.evs, kd), id, r.evs, kd)

\* concatMap(action => action.execute().pipe(...)): start task id
DoInnerSub(s, id, kd) ==
  InnerSubscribed(Execute([s EXCEPT !.active = @ \cup {id}, !.execLog = Append(@, id)],
                          id, kd[id]),
                  id, kd)

\* actionQueue$.next(action) as concatMap receives it
OuterNext(s, id, kd) ==
  IF ~s.alive THEN s
  ELSE IF CanStart(s) THEN DoInnerSub(s, id, kd)
  ELSE [s EXCEPT !.buffer = Append(@, id)]

\* switchMap on reset$.next(): unsubscribe the running pipeline (the task in
\* flight and the buffered ones go with it), emit cleared$, subscribe a new one
SwitchKeepsInner(s) == [s EXCEPT !.clearedCount = @ + 1]

SwitchInner(s) ==
  [Finalize(s, s.active) EXCEPT !.active = {}, !.buffer = << >>, !.clearedCount = @ + 1]

\* the client's subscriber of onCleared$ runs inside cleared$.next(), which
\* is called in the projection of switchMap, before the new pipeline is
\* subscribed. rxjs 7 unsubscribes the running pipeline before it calls the
\* projection: actionQueue$.next(task) finds no subscriber. rxjs 6 calls the
\* projection first: the running pipeline receives the task, then is
\* unsubscribed.
ClearedHandler7(s) ==
  [SwitchInner(s) EXCEPT !.handler.on = "done", !.pendingActions = @ + 1]

ClearedHandler6(s) ==
  [Finalize(OuterNext([s EXCEPT !.handler.on = "done", !.pendingActions = @ + 1,
                                !.clearedCount = @ + 1],
                      s.handler.task,
                      [i \in TaskIds |-> s.handler.kind]),
            TaskIds)
     EXCEPT !.active = {}, !.buffer = << >>]

SwitchNotified(s) ==
  IF s.handler.rxjs = 7 THEN ClearedHandler7(s) ELSE ClearedHandler6(s)

ResetNext(s) ==
  IF ~s.alive THEN s
  ELSE IF s.handler.on = "cleared" THEN SwitchNotified(s)
  ELSE SwitchInner(s)

\* the notifications evs of the stream of session id, given to its subscriber
Deliver(s, id, evs, kd) ==
  IF evs = << >> \/ ~SubOpen(s, id) THEN s
  ELSE LET ended == "complete" \in {evs[i] : i \in DOMAIN evs} IN
       IF s.sub[id].who = "task"
         THEN LET task == s.sub[id].task
                  t == IF ended THEN Finalize([s EXCEPT !.stream[task] = "complete"], {task})
                                ELSE s
              IN Notify(TaskPipe(t, task, evs, kd), task, evs, kd)
       ELSE IF ended
         THEN IdleComplete([s EXCEPT !.sub[id].open = FALSE], s.sub[id].token)
       ELSE s

\* the rest of a processFrame() that has come to state s: the observers run,
\* then the timer is set
Emitted(s, id, kd) ==
  ProcessFrameSchedule(Deliver(s, id, EmittedEvents(s.fx.emitted), kd), id, IsAtLastFrame(s))

\* setTimeout(processFrame) of session id fires: processFrame() with its
\* observers running inside it
Tick(s0, id, random, kd) ==
  IF ~IsCurrent(s0, id)
    THEN Deliver(ProcessFrameStale(s0, id, "timer"), id, <<"complete">>, kd)
  ELSE Emitted(ProcessFrameEmit(s0, id, random, "timer"), id, kd)

\* hide() of the balloon: setTimeout(finishHide, CLOSE_BALLOON_DELAY)
BalloonHide(s) == [s EXCEPT !.hideTimeout = TRUE]

\* ---------------------------------------------------------- speakStream()

MaxStreams == 2
MaxChunks == 2

StreamIds == 1..MaxStreams

\* The closure of one subscription of speakStream(source):
\*   run       "none": not subscribed; "awaiting": run() awaits iterator.next();
\*             "ended": run() has returned
\*   finished  the local finished
\*   open      the subscriber has neither been completed, failed nor unsubscribed
\*   result    what the subscriber was told: "none" | "complete" | "error"
\*   chunks    calls of stream.push(); late: those made after stream.done()
\*   doneCalls calls of stream.done()
NoStream == [run |-> "none", finished |-> FALSE, open |-> FALSE, result |-> "none",
             chunks |-> 0, late |-> 0, doneCalls |-> 0]

\* done() of the balloon's stream: isActive = false; shouldHold = false;
\* complete$.next(); complete$.complete(); this.hide()
StreamDone(s, id) ==
  BalloonHide([s EXCEPT !.isActive = FALSE, !.shouldHold = FALSE,
                        !.streams[id].doneCalls = @ + 1])

\* finishStream(): if (finished) return; finished = true; stream.done()
FinishStreamUnguarded(s, id) ==
  StreamDone([s EXCEPT !.streams[id].finished = TRUE], id)

FinishStream(s, id) ==
  IF s.streams[id].finished THEN s
  ELSE StreamDone([s EXCEPT !.streams[id].finished = TRUE], id)

\* the teardown of the subscription, run once, when the subscriber is
\* completed, failed or unsubscribed: finishStream(); iterator.return?.()
Teardown(s, id) ==
  IF ~s.streams[id].open THEN s
  ELSE FinishStream([s EXCEPT !.streams[id].open = FALSE], id)

\* push(chunk) of the balloon's stream: textContent = fullText
StreamPush(s, id) ==
  [s EXCEPT !.balloonText = [task |-> 0, words |-> s.streams[id].chunks + 1],
            !.streams[id].chunks = @ + 1,
            !.streams[id].late = IF s.streams[id].doneCalls > 0 THEN @ + 1 ELSE @]

\* the subscriber is told result (observer.complete() or observer.error()),
\* which closes it and runs the teardown
StreamTold(s, id, result) ==
  IF ~s.streams[id].open THEN s
  ELSE Teardown([s EXCEPT !.streams[id].result = result], id)

\* run() leaves its loop, by break or by catch: finishStream(), then
\* observer.next(); observer.complete() or observer.error(error)
RunEnds(s, id, result) ==
  StreamTold(FinishStream([s EXCEPT !.streams[id].run = "ended"], id), id, result)

\* speechBalloonService.speakStream(): isHidden = false; isActive = true;
\* shouldHold = true; show(); textContent = ''
BalloonStream(s, id) ==
  [s EXCEPT !.isActive = TRUE, !.shouldHold = TRUE, !.balloonShown = TRUE,
            !.balloonText = [task |-> 0, words |-> 0],
            !.streams[id] = [NoStream EXCEPT !.run = "awaiting", !.open = TRUE]]

\* the observer of the speech of task id is given evs and is completed
SpeechEnds(s, id, evs, kd) ==
  Notify([s EXCEPT !.stream[id] = IF @ = "open" THEN "complete" ELSE @], id, evs, kd)

\* addWord() of the speech of task id, from its setTimeout
AddWord(s, id, kd) ==
  IF ~s.isActive THEN SpeechEnds(s, id, <<"complete">>, kd)
  ELSE IF s.speech[id].index > SpeechWords
    THEN IF s.taskHold[id]
           THEN [s EXCEPT !.isActive = FALSE]
           ELSE BalloonHide(SpeechEnds([s EXCEPT !.isActive = FALSE], id,
                                       <<"next", "complete">>, kd))
  ELSE AddWordWrites(s, id)

\* ------------------------------------------------------------- Init

\* After the constructor: initializeQueue() has subscribed; the cleared$.next()
\* of startWith(null) found no subscriber (nobody holds the service yet).
QInit ==
  /\ pendingActions = 0
  /\ alive = TRUE
  /\ active = {}
  /\ buffer = << >>
  /\ kind = [i \in TaskIds |-> "none"]
  /\ stream = [i \in TaskIds |-> "unborn"]
  /\ taskGen = [i \in TaskIds |-> 0]
  /\ nextTask = 1
  /\ execLog = << >>
  /\ clearCalls = 0
  /\ clearedCount = 0
  /\ queueEmptyCount = 0
  /\ tapCount = 0
  /\ progressCount = 0
  /\ handler = NoHandler
  /\ last = [op |-> "init", id |-> 0, pend |-> 0, act |-> {}, ret |-> "void"]

\* the component after construction: hidden, no idle loop
CInit ==
  /\ viewInit = FALSE
  /\ destroyed = FALSE
  /\ isHidden = TRUE
  /\ isVisible = FALSE
  /\ idleLoopToken = 0
  /\ idleLoopSubscription = NoSubscription
  /\ idleTimers = {}
  /\ sub = [i \in SessionIds |-> NoSub]
  /\ taskAnim = [i \in TaskIds |-> ""]
  /\ exitTimers = {}

\* the balloon after construction
BInit ==
  /\ isActive = FALSE
  /\ shouldHold = FALSE
  /\ balloonShown = FALSE
  /\ hideTimeout = FALSE
  /\ speech = [i \in TaskIds |-> NoSpeech]
  /\ taskHold = [i \in TaskIds |-> FALSE]
  /\ balloonText = [task |-> 0, words |-> 0]
  /\ streams = [i \in StreamIds |-> NoStream]

\* ---------------------------------------------------------- actions

\* the counters of the model stay within their bounds
Bounded == animationId' <= MaxAnimationId /\ idleLoopToken' <= MaxIdleToken

\* enqueue(action): pendingActions++; actionQueue$.next(action)
Enqueue(k) ==
  /\ nextTask <= MaxTasks
  /\ \E idle \in IdlePick(agent) :
       LET id == nextTask
           kd == [kind EXCEPT ![id] = k]
           s  == [State EXCEPT !.pendingActions = @ + 1, !.idlePick = idle]
       IN /\ kind' = kd
          /\ SetState(OuterNext(s, id, kd))
          /\ taskGen' = [taskGen EXCEPT ![id] = clearCalls]
          /\ nextTask' = id + 1
          /\ last' = [op |-> "enqueue", id |-> id, pend |-> pendingActions, act |-> active,
              ret |-> "void"]
  /\ UNCHANGED <<clearCalls, progressCount>>
  /\ Bounded

\* clear(): pendingActions = 0; reset$.next()
Clear ==
  /\ clearCalls < MaxClears
  /\ QSet(ResetNext([State EXCEPT !.pendingActions = 0]))
  /\ clearCalls' = clearCalls + 1
  /\ last' = [op |-> "clear", id |-> 0, pend |-> pendingActions, act |-> active,
              ret |-> "void"]
  /\ UNCHANGED <<kind, taskGen, nextTask, progressCount>>
  /\ UNCHANGED <<avars, cvars, bvars>>

\* the stream of task id emits an intermediate value (e.g. WAITING)
Progress(id) ==
  /\ stream[id] = "open"
  /\ kind[id] = "async"
  /\ progressCount < MaxProgress
  /\ QSet(Notify(State, id, <<"next">>, kind))
  /\ progressCount' = progressCount + 1
  /\ last' = [op |-> "progress", id |-> id, pend |-> pendingActions, act |-> active,
              ret |-> "void"]
  /\ UNCHANGED <<kind, taskGen, nextTask, clearCalls>>
  /\ UNCHANGED <<avars, cvars, bvars>>

\* the stream of task id completes
Complete(id) ==
  /\ stream[id] = "open"
  /\ kind[id] = "async"
  /\ \E idle \in IdlePick(agent) :
       SetState(Notify([State EXCEPT !.stream[id] = "complete", !.idlePick = idle],
                       id, <<"complete">>, kind))
  /\ last' = [op |-> "complete", id |-> id, pend |-> pendingActions, act |-> active,
              ret |-> "void"]
  /\ UNCHANGED <<kind, taskGen, nextTask, clearCalls, progressCount>>
  /\ Bounded

\* the stream of task id fails
Fail(id) ==
  /\ stream[id] = "open"
  /\ kind[id] = "async"
  /\ QSet(Notify([State EXCEPT !.stream[id] = "error"], id, <<"error">>, kind))
  /\ last' = [op |-> "fail", id |-> id, pend |-> pendingActions, act |-> active,
              ret |-> "void"]
  /\ UNCHANGED <<kind, taskGen, nextTask, clearCalls, progressCount>>
  /\ UNCHANGED <<avars, cvars, bvars>>

\* a client subscribes a handler that enqueues a task of kind k to
\* onQueueEmpty$ or to onCleared$
Subscribe(on, k) ==
  /\ handler.on = "none"
  /\ nextTask <= MaxTasks
  /\ alive
  /\ \E rx \in RxjsVersions :
       handler' = [on |-> on, task |-> nextTask, kind |-> k, rxjs |-> rx]
  /\ kind' = [kind EXCEPT ![nextTask] = k]
  /\ taskGen' = [taskGen EXCEPT ![nextTask] = IF on = "cleared" THEN clearCalls + 1
                                                             ELSE clearCalls]
  /\ nextTask' = nextTask + 1
  /\ last' = [op |-> "subscribe", id |-> nextTask, pend |-> pendingActions,
              act |-> active, ret |-> "void"]
  /\ UNCHANGED <<pendingActions, alive, active, buffer, stream, execLog, clearCalls,
                 clearedCount, queueEmptyCount, tapCount, progressCount>>
  /\ UNCHANGED <<avars, cvars, bvars>>

\* (service as unknown as { pendingActions: number }).pendingActions = 0
\* with a task in flight: the state the service's test builds for the guard
PokePending ==
  /\ active # {}
  /\ pendingActions > 0
  /\ pendingActions' = 0
  /\ last' = [op |-> "poke", id |-> 0, pend |-> pendingActions, act |-> active,
              ret |-> "void"]
  /\ UNCHANGED <<alive, active, buffer, kind, stream, taskGen, nextTask, execLog,
                 clearCalls, clearedCount, queueEmptyCount, tapCount, progressCount,
                 handler>>
  /\ UNCHANGED <<avars, cvars, bvars>>

\* ------------------------------------------------- AnimationService: actions

AInit ==
  /\ animationId = 0
  /\ currentFrameIndex = 0
  /\ currentFrame = -1
  /\ currentAnimationName = ""
  /\ currentAnimationData = << >>
  /\ shouldExit = FALSE
  /\ agent = 1
  /\ timers = [i \in SessionIds |-> 0]
  /\ observer = [i \in SessionIds |-> "none"]
  /\ audioBlocked = FALSE
  /\ fx = NoFx

\* playAnimation(agentData, name) of an animation the agent lacks: EMPTY
PlayMissing(name) ==
  /\ ~HasAnimation(agent, name)
  /\ ASet(PlayAnimationEmpty(AState))
  /\ UNCHANGED <<qvars, cvars, bvars>>

\* playAnimation(agentData, name), the stream subscribed at once: the first
\* processFrame() runs inside the call
PlayAnimation(name) ==
  /\ HasAnimation(agent, name)
  /\ animationId < MaxAnimationId
  /\ LET id == SessionId(AState)
         s == [Selected(AState, name) EXCEPT !.animationId = id, !.observer[id] = "open"]
     IN \E random \in Draws : ASet(ProcessFrame(s, id, random, "play"))
  /\ UNCHANGED <<qvars, cvars, bvars>>

\* exitAnimation()
ExitAnimation ==
  /\ shouldExit' = TRUE
  /\ fx' = [NoFx EXCEPT !.op = "exit"]
  /\ UNCHANGED <<animationId, currentFrameIndex, currentFrame, currentAnimationName,
                 currentAnimationData, agent, timers, observer, audioBlocked>>
  /\ UNCHANGED <<qvars, cvars, bvars>>

\* reinitialize(containerRef, mapUrl, agentData, soundUrls)
Reinitialize(ag) ==
  /\ animationId < MaxAnimationId
  /\ ASet(Reinitialized(AState, ag))
  /\ UNCHANGED <<qvars, cvars, bvars>>

\* a pending setTimeout(processFrame) of the session that captured id fires
TimerFires(id) ==
  /\ timers[id] > 0
  /\ currentFrameIndex < MaxFrameIndex
  /\ \E random \in IF DrawsRandom(State) /\ IsCurrent(State, id) THEN Draws ELSE {0},
        idle \in IdlePick(agent) :
       SetState(Tick([State EXCEPT !.timers[id] = @ - 1, !.idlePick = idle],
                     id, random, kind))
  /\ last' = [op |-> "timer", id |-> id, pend |-> pendingActions, act |-> active,
              ret |-> "void"]
  /\ UNCHANGED <<kind, taskGen, nextTask, clearCalls, progressCount>>
  /\ Bounded

\* ------------------------------------------- ClippyAgentComponent: actions

\* the component is wired and alive
Ready == viewInit /\ ~destroyed

\* the state an operation op of the component starts from
Called(op, idle) == [State EXCEPT !.idlePick = idle, !.fx = [NoFx EXCEPT !.op = op]]

\* enqueueAction(action): cancelIdleLoop(); actionQueueService.enqueue(action)
EnqueueAction(s, id, name, kd) ==
  OuterNext([CancelIdleLoop(s) EXCEPT !.pendingActions = @ + 1, !.taskAnim[id] = name],
            id, kd)

\* what operation op returns: play() tells whether it has enqueued a task
Returned(op, enqueued) ==
  IF op = "play" THEN (IF enqueued THEN "true" ELSE "false") ELSE "void"

\* an operation that enqueues a task of kind k
AgentEnqueue(s, k, name, op) ==
  /\ nextTask <= MaxTasks
  /\ LET id == nextTask
         kd == [kind EXCEPT ![id] = k]
     IN /\ kind' = kd
        /\ SetState(EnqueueAction(s, id, name, kd))
        /\ taskGen' = [taskGen EXCEPT ![id] = clearCalls]
        /\ nextTask' = id + 1
        /\ last' = [op |-> op, id |-> id, pend |-> pendingActions, act |-> active,
                    ret |-> Returned(op, TRUE)]
  /\ UNCHANGED <<clearCalls, progressCount>>
  /\ Bounded

\* an operation that enqueues nothing
AgentCall(s, op, id) ==
  /\ SetState(s)
  /\ last' = [op |-> op, id |-> id, pend |-> pendingActions, act |-> active,
              ret |-> Returned(op, FALSE)]
  /\ UNCHANGED <<kind, taskGen, nextTask, clearCalls, progressCount>>
  /\ Bounded

\* ngAfterViewInit(): initializeServices(); setupDragDrop(); setupQueueEmptyHandler()
NgAfterViewInit ==
  /\ ~viewInit
  /\ ~destroyed
  /\ AgentCall([Called("init", "") EXCEPT !.viewInit = TRUE], "init", 0)

\* show(immediate)
Show(immediate) ==
  /\ Ready
  /\ \E idle \in IdlePick(agent) :
       LET op == IF immediate THEN "showNow" ELSE "show"
           s == [CancelIdleLoop(Called(op, idle)) EXCEPT !.isHidden = FALSE,
                                                         !.isVisible = TRUE]
       IN IF ~immediate /\ HasAnimation(agent, "Show")
            THEN AgentEnqueue(s, "play", "Show", op)
            ELSE AgentCall(s, op, 0)

\* hide(immediate)
Hide(immediate) ==
  /\ Ready
  /\ \E idle \in IdlePick(agent) :
       LET op == IF immediate THEN "hideNow" ELSE "hide"
           s == [CancelIdleLoop(Called(op, idle)) EXCEPT !.isHidden = TRUE]
       IN IF immediate
            THEN AgentCall([s EXCEPT !.isVisible = FALSE, !.shouldExit = TRUE], op, 0)
            ELSE AgentEnqueue(s, "hide", "Hide", op)

\* the animations the callers of the component play
PlayNames == {"Run", "IdleLoop", "Nope"}

\* if (!this.hasAnimation(animationName)) return false
PlayEnqueuesAlways(ag, name) == TRUE

PlayEnqueues(ag, name) == HasAnimation(ag, name)

\* play(animationName, timeout)
PlayTimeout(name, timeout) ==
  /\ Ready
  /\ \E idle \in IdlePick(agent) :
       IF PlayEnqueues(agent, name)
         THEN AgentEnqueue(Called("play", idle),
                           IF timeout > 0 THEN "play" ELSE "playUntimed", name, "play")
         ELSE AgentCall([State EXCEPT !.fx = [NoFx EXCEPT !.op = "play"]], "play", 0)

\* play(animationName)
Play(name) == PlayTimeout(name, DefaultTimeout)

\* the setTimeout(() => this.animationService.exitAnimation(), timeout) of task id fires
ExitTimerFires(id) ==
  /\ id \in exitTimers
  /\ AgentCall([State EXCEPT !.exitTimers = @ \ {id}, !.shouldExit = TRUE,
                             !.fx = [NoFx EXCEPT !.op = "exit"]],
               "exitTimer", id)

\* speak(text, {hold})
Speak(hold) ==
  /\ Ready
  /\ nextTask <= MaxTasks
  /\ \E idle \in IdlePick(agent) :
       AgentEnqueue([Called("speak", idle) EXCEPT !.taskHold[nextTask] = hold],
                    "speak", "", "speak")

\* a pending setTimeout(addWord) of the speech of task id fires
SpeechTimerFires(id) ==
  /\ speech[id].timer
  /\ \E idle \in IdlePick(agent) :
       AgentCall(AddWord([Called("speechTimer", idle) EXCEPT !.speech[id].timer = FALSE],
                         id, kind),
                 "speechTimer", id)

\* delay(milliseconds)
Delay ==
  /\ Ready
  /\ \E idle \in IdlePick(agent) : AgentEnqueue(Called("delay", idle), "async", "", "delay")

\* moveTo(x, y, duration) for an agent without the move animation: of(void 0)
\* when duration is 0, animateMovement() otherwise
MoveTo(immediate) ==
  /\ Ready
  /\ \E idle \in IdlePick(agent) :
       AgentEnqueue(Called("moveTo", idle), IF immediate THEN "of" ELSE "async", "", "moveTo")

\* stop(): cancelIdleLoop(); actionQueueService.clear(); animationService.exitAnimation();
\* speechBalloonService.hide(true)
Stopped(s) ==
  [ResetNext([CancelIdleLoop(s) EXCEPT !.pendingActions = 0])
     EXCEPT !.shouldExit = TRUE, !.balloonShown = FALSE]

Stop ==
  /\ Ready
  /\ clearCalls < MaxClears
  /\ SetState(Stopped(Called("stop", "")))
  /\ clearCalls' = clearCalls + 1
  /\ last' = [op |-> "stop", id |-> 0, pend |-> pendingActions, act |-> active,
              ret |-> "void"]
  /\ UNCHANGED <<kind, taskGen, nextTask, progressCount>>
  /\ Bounded

\* stopCurrent(): cancelIdleLoop(); animationService.exitAnimation();
\* speechBalloonService.close()
StopCurrent ==
  /\ Ready
  /\ LET s == CancelIdleLoop(Called("stopCurrent", ""))
     IN AgentCall([s EXCEPT !.shouldExit = TRUE,
                            !.shouldHold = IF s.isActive THEN FALSE ELSE @],
                  "stopCurrent", 0)

\* speakStream(source, options).subscribe(): this.stop(); the balloon's stream
\* is opened; run() is called and awaits iterator.next()
SpeakStream(id) ==
  /\ Ready
  /\ clearCalls < MaxClears
  /\ streams[id].run = "none"
  /\ \A i \in StreamIds : i < id => streams[i].run # "none"
  /\ SetState(BalloonStream(Stopped(Called("speakStream", "")), id))
  /\ clearCalls' = clearCalls + 1
  /\ last' = [op |-> "speakStream", id |-> id, pend |-> pendingActions, act |-> active,
              ret |-> "void"]
  /\ UNCHANGED <<kind, taskGen, nextTask, progressCount>>
  /\ Bounded

\* the awaited iterator.next() gives a chunk: if (done || finished) break;
\* fullText += value; stream.push(value), and the loop awaits the next one
SourceYields(id) ==
  /\ streams[id].run = "awaiting"
  /\ streams[id].chunks < MaxChunks
  /\ LET s == Called("chunk", "")
     IN AgentCall(IF s.streams[id].finished THEN RunEnds(s, id, "complete")
                                            ELSE StreamPush(s, id),
                  "chunk", id)

\* the awaited iterator.next() gives done: break; finishStream();
\* observer.next(); observer.complete()
SourceDone(id) ==
  /\ streams[id].run = "awaiting"
  /\ AgentCall(RunEnds(Called("sourceDone", ""), id, "complete"), "sourceDone", id)

\* the awaited iterator.next() rejects: catch: finishStream(); observer.error(error)
SourceThrows(id) ==
  /\ streams[id].run = "awaiting"
  /\ AgentCall(RunEnds(Called("sourceThrows", ""), id, "error"), "sourceThrows", id)

\* the subscriber unsubscribes
Unsubscribe(id) ==
  /\ streams[id].open
  /\ AgentCall(Teardown(Called("unsubscribe", ""), id), "unsubscribe", id)

\* closeBalloon(): speechBalloonService.hide()
CloseBalloon ==
  /\ Ready
  /\ AgentCall(BalloonHide(Called("closeBalloon", "")), "closeBalloon", 0)

\* the setTimeout(finishHide) of the balloon fires
HideTimerFires ==
  /\ hideTimeout
  /\ LET s == [Called("hideTimer", "") EXCEPT !.hideTimeout = FALSE]
     IN AgentCall(IF s.isActive THEN s ELSE [s EXCEPT !.balloonShown = FALSE],
                  "hideTimer", 0)

\* the effect on agentConfig, for a new configuration with agent data ag:
\* cancelIdleLoop(); clear(); exitAnimation(); speechBalloonService.hide(true);
\* animationService.reinitialize(...)
ConfigChange(ag) ==
  /\ Ready
  /\ ag # agent
  /\ clearCalls < MaxClears
  /\ LET s == CancelIdleLoop(Called("config", ""))
         q == ResetNext([s EXCEPT !.pendingActions = 0])
     IN SetState(Reinitialized([q EXCEPT !.shouldExit = TRUE, !.balloonShown = FALSE], ag))
  /\ clearCalls' = clearCalls + 1
  /\ last' = [op |-> "config", id |-> 0, pend |-> pendingActions, act |-> active,
              ret |-> "void"]
  /\ UNCHANGED <<kind, taskGen, nextTask, progressCount>>
  /\ Bounded

\* ngOnDestroy(): dispose(); takeUntilDestroyed ends the component's subscriptions
NgOnDestroy ==
  /\ Ready
  /\ LET s == CancelIdleLoop(Called("destroy", ""))
     IN AgentCall([s EXCEPT !.destroyed = TRUE,
                            !.idleTimers = {},
                            !.hideTimeout = FALSE,
                            !.sub = [i \in SessionIds |->
                                       IF @[i].who = "idle" THEN [@[i] EXCEPT !.open = FALSE]
                                       ELSE @[i]]],
                  "destroy", 0)

\* the timer(0) of the idle loop that captured token fires: playNext()
IdleTimerFires(token) ==
  /\ Ready
  /\ token \in idleTimers
  /\ \E idle \in IdlePick(agent) :
       AgentCall(PlayNext([Called("idleTimer", idle) EXCEPT !.idleTimers = @ \ {token}],
                          token),
                 "idleTimer", token)

\* ============================================================ specifications

vars == <<qvars, avars, cvars, bvars>>

Init == QInit /\ AInit /\ CInit /\ BInit

Next ==
  \/ \E k \in Kinds : Enqueue(k)
  \/ Clear
  \/ \E id \in TaskIds : Progress(id)
  \/ \E id \in TaskIds : Complete(id)
  \/ \E id \in TaskIds : Fail(id)

Spec == Init /\ [][Next]_vars

NextGuard == Next \/ PokePending

\* the component with play(name, timeout) and the exit timers of its tasks
NextTimeout ==
  \/ NgAfterViewInit
  \/ \E immediate \in BOOLEAN : Show(immediate)
  \/ \E name \in PlayNames, timeout \in {0, DefaultTimeout} : PlayTimeout(name, timeout)
  \/ Stop
  \/ \E id \in SessionIds : TimerFires(id)
  \/ \E token \in 1..MaxIdleToken : IdleTimerFires(token)
  \/ \E id \in TaskIds : ExitTimerFires(id)

SpecTimeout == Init /\ [][NextTimeout]_vars

\* the component with streamed speeches
NextStream ==
  \/ NgAfterViewInit
  \/ \E id \in StreamIds : SpeakStream(id)
  \/ \E id \in StreamIds : SourceYields(id)
  \/ \E id \in StreamIds : SourceDone(id)
  \/ \E id \in StreamIds : SourceThrows(id)
  \/ \E id \in StreamIds : Unsubscribe(id)
  \/ CloseBalloon
  \/ HideTimerFires

SpecStream == Init /\ [][NextStream]_vars

\* the sequencer with a client whose handler enqueues a task
NextHandlers ==
  \/ \E k \in {"async", "of"} : Enqueue(k)
  \/ Clear
  \/ \E id \in TaskIds : Complete(id)
  \/ \E on \in {"empty", "cleared"}, k \in {"async", "of"} : Subscribe(on, k)

SpecHandlers == Init /\ [][NextHandlers]_vars

SpecGuard == Init /\ [][NextGuard]_vars

NextAnim ==
  \/ \E name \in AnimationNames : PlayMissing(name)
  \/ \E name \in AnimationNames : PlayAnimation(name)
  \/ ExitAnimation
  \/ \E ag \in AgentIds : Reinitialize(ag)
  \/ \E id \in SessionIds : TimerFires(id)

SpecAnim == Init /\ [][NextAnim]_vars

\* the browser starts or stops rejecting play() (autoplay policy, a sound
\* that cannot be decoded, a device that is gone)
AudioPolicy ==
  /\ audioBlocked' = ~audioBlocked
  /\ fx' = [NoFx EXCEPT !.op = "audio"]
  /\ UNCHANGED <<animationId, currentFrameIndex, currentFrame, currentAnimationName,
                 currentAnimationData, shouldExit, agent, timers, observer>>
  /\ UNCHANGED <<qvars, cvars, bvars>>

\* the animation loop with sounds that play or fail
NextSound ==
  \/ \E name \in AnimationNames : PlayAnimation(name)
  \/ ExitAnimation
  \/ \E id \in SessionIds : TimerFires(id)
  \/ AudioPolicy

SpecSound == Init /\ [][NextSound]_vars

NextAgent ==
  \/ NgAfterViewInit
  \/ \E immediate \in BOOLEAN : Show(immediate)
  \/ \E immediate \in BOOLEAN : Hide(immediate)
  \/ \E name \in PlayNames : Play(name)
  \/ Delay
  \/ \E immediate \in BOOLEAN : MoveTo(immediate)
  \/ Stop
  \/ NgOnDestroy
  \/ \E id \in TaskIds : Complete(id)
  \/ \E id \in SessionIds : TimerFires(id)
  \/ \E token \in 0..MaxIdleToken : IdleTimerFires(token)

SpecAgent == Init /\ [][NextAgent]_vars

\* the component with changes of its agent configuration
NextConfig ==
  \/ NgAfterViewInit
  \/ \E immediate \in BOOLEAN : Show(immediate)
  \/ \E immediate \in BOOLEAN : Hide(immediate)
  \/ \E name \in PlayNames : Play(name)
  \/ \E immediate \in BOOLEAN : MoveTo(immediate)
  \/ \E ag \in AgentIds : ConfigChange(ag)
  \/ \E id \in TaskIds : Complete(id)
  \/ \E id \in SessionIds : TimerFires(id)
  \/ \E token \in 0..MaxIdleToken : IdleTimerFires(token)

SpecConfig == Init /\ [][NextConfig]_vars

\* the component speaking, with the operations that end what is in flight
NextSpeech ==
  \/ NgAfterViewInit
  \/ \E hold \in BOOLEAN : Speak(hold)
  \/ \E name \in PlayNames : Play(name)
  \/ Stop
  \/ StopCurrent
  \/ CloseBalloon
  \/ \E id \in TaskIds : SpeechTimerFires(id)
  \/ \E id \in SessionIds : TimerFires(id)
  \/ HideTimerFires

SpecSpeech == Init /\ [][NextSpeech]_vars

\* speeches only, with their timers: every setTimeout that is pending fires
NextHold ==
  \/ NgAfterViewInit
  \/ \E hold \in BOOLEAN : Speak(hold)
  \/ StopCurrent
  \/ CloseBalloon
  \/ \E id \in TaskIds : SpeechTimerFires(id)
  \/ HideTimerFires

SpecHold ==
  /\ Init
  /\ [][NextHold]_vars
  /\ \A id \in TaskIds : WF_vars(SpeechTimerFires(id))
  /\ WF_vars(HideTimerFires)

\* ------------------------------------------------------------ claims

Range(f) == {f[i] : i \in DOMAIN f}

Enqueued(id) == id < nextTask

Executed(id) == id \in Range(execLog)

\* a task of the running generation whose execute() was invoked and whose
\* stream has not terminated
InFlight(id) == Executed(id) /\ stream[id] = "open" /\ taskGen[id] = clearCalls

\* a task of the running generation that has not terminated: in flight or waiting
Unfinished(id) ==
  Enqueued(id) /\ taskGen[id] = clearCalls /\ stream[id] \in {"unborn", "open"}

\* C1: within one generation (between two clear() calls) tasks are executed in
\* enqueue order and one at a time: execute() of a later task is invoked only
\* once every earlier task of its generation has completed, and at most one
\* task is in flight.
SequentialFifo ==
  /\ Cardinality({id \in TaskIds : InFlight(id)}) <= 1
  /\ \A i, j \in DOMAIN execLog : i < j => execLog[i] < execLog[j]
  /\ \A a, b \in TaskIds :
       (a < b /\ Enqueued(b) /\ taskGen[a] = taskGen[b] /\ Executed(b))
         => (Executed(a) /\ stream[a] = "complete")

\* two tasks have run one after the other while a third one waits
WitnessSequentialFifo ==
  /\ Len(execLog) >= 2
  /\ taskGen[execLog[1]] = taskGen[execLog[2]]
  /\ kind[execLog[1]] = "async"
  /\ InFlight(execLog[2])
  /\ buffer # << >>

\* a clear() call made while one task is in flight and another is buffered
ClearMidTask == clearCalls' = clearCalls + 1 /\ active # {} /\ buffer # << >>

\* no task discarded by clear() before it was started is started later
DiscardedNeverStart ==
  \A id \in TaskIds :
    (Enqueued(id) /\ taskGen[id] < clearCalls /\ ~Executed(id)) => id \notin Range(execLog')

\* the completion of a task that clear() cancelled changes nothing
LateCompletionSilent ==
  \A id \in TaskIds :
    (stream[id] = "open" /\ stream'[id] = "complete" /\ taskGen[id] < clearCalls)
      => /\ pendingActions' = pendingActions
         /\ queueEmptyCount' = queueEmptyCount
         /\ execLog' = execLog

\* C2 as claimed: when clear() is called with A in flight and B buffered, B is
\* never executed, and neither clear() itself nor A's later completion changes
\* pending-count or fires onEmpty.
ClearChangesNothing ==
  [][/\ ClearMidTask => /\ pendingActions' = pendingActions
                        /\ queueEmptyCount' = queueEmptyCount
                        /\ execLog' = execLog
     /\ DiscardedNeverStart
     /\ LateCompletionSilent]_vars

\* C2 as amended: when clear() is called with A in flight and B buffered, B is
\* never executed; clear() resets pending-count to zero without firing onEmpty,
\* and A's later completion neither changes pending-count nor fires onEmpty.
ClearDiscards ==
  [][/\ ClearMidTask => /\ pendingActions' = 0
                        /\ queueEmptyCount' = queueEmptyCount
                        /\ execLog' = execLog
     /\ DiscardedNeverStart
     /\ LateCompletionSilent]_vars

\* A was in flight and B buffered at a clear(), and A has completed since
WitnessClearDiscards ==
  /\ last.op = "complete"
  /\ taskGen[last.id] < clearCalls
  /\ Executed(last.id)
  /\ \E b \in TaskIds :
       Enqueued(b) /\ b > last.id /\ taskGen[b] = taskGen[last.id] /\ ~Executed(b)

\* C3: after a clear() the sequencer is re-armed: a task enqueued when no task
\* of the new generation is in flight is started by that enqueue, and the
\* completion of the only pending task fires onEmpty.
RearmedAfterClear ==
  [][/\ (nextTask' = nextTask + 1 /\ clearCalls >= 1
           /\ \A id \in TaskIds : ~InFlight(id))
        => nextTask \in Range(execLog')
     /\ \A id \in TaskIds :
          (clearCalls >= 1 /\ InFlight(id) /\ stream'[id] = "complete"
             /\ pendingActions = 1)
            => queueEmptyCount' = queueEmptyCount + 1]_vars

\* C4: a failing task does not disable the sequencer: every task of the running
\* generation whose predecessors have all terminated (completed or failed) has
\* been executed.
FailureIsolated ==
  \A id \in TaskIds :
    (/\ Enqueued(id)
     /\ taskGen[id] = clearCalls
     /\ \A a \in TaskIds :
          (a < id /\ taskGen[a] = taskGen[id]) => stream[a] \in {"complete", "error"})
      => Executed(id)

\* C5: onEmpty fires exactly when a task completion brings pending-count to
\* zero, at most once per completion, and never while a task of the running
\* generation is in flight or buffered.
EmptyExactlyAtZero ==
  [][/\ queueEmptyCount' \in {queueEmptyCount, queueEmptyCount + 1}
     /\ (queueEmptyCount' # queueEmptyCount)
          <=> (tapCount' # tapCount /\ pendingActions' = 0)
     /\ (queueEmptyCount' # queueEmptyCount)
          => (active' = {} /\ buffer' = << >> /\ \A id \in TaskIds : ~Unfinished(id)')]_vars

\* two tasks were pending together, both have completed, onEmpty has fired once
WitnessEmptyOnce ==
  /\ clearCalls = 0
  /\ execLog = <<1, 2>>
  /\ kind[1] = "async" /\ kind[2] = "async"
  /\ stream[1] = "complete" /\ stream[2] = "complete"
  /\ tapCount = 2
  /\ queueEmptyCount = 1

\* C6: pending-count is never negative; a completion that arrives when
\* pending-count is already zero leaves it at zero and still fires onEmpty.
PendingNeverNegative ==
  /\ pendingActions >= 0
  /\ [][/\ pendingActions' >= 0
        /\ (tapCount' = tapCount + 1 /\ nextTask' = nextTask /\ pendingActions = 0)
             => (pendingActions' = 0 /\ queueEmptyCount' = queueEmptyCount + 1)]_vars

\* the task in flight has completed while pending-count was already zero
WitnessCompletionAtZero ==
  /\ last.op = "complete"
  /\ last.id \in last.act
  /\ last.pend = 0
  /\ pendingActions = 0
  /\ queueEmptyCount >= 1

\* C7: subscribers receive exactly one onCleared notification per clear() call
\* and none without one.
ClearedOncePerClear == clearedCount = clearCalls

\* C8: an intermediate value of the in-flight task's stream starts no task,
\* leaves pending-count alone and fires no onEmpty.
ProgressDoesNotAdvance ==
  [][progressCount' # progressCount
       => /\ pendingActions' = pendingActions
          /\ execLog' = execLog
          /\ queueEmptyCount' = queueEmptyCount
          /\ tapCount' = tapCount
          /\ active' = active
          /\ buffer' = buffer]_vars

\* the task in flight has emitted an intermediate value while another waits
WitnessProgress ==
  /\ last.op = "progress"
  /\ last.id \in active
  /\ buffer # << >>

\* C9: enqueue() invokes execute() before it returns when no task is in
\* flight, and does not invoke it when one is; a waiting task is executed only
\* once its predecessors have completed.
EnqueueStartsWhenIdle ==
  [][nextTask' = nextTask + 1
       => /\ (\A id \in TaskIds : ~InFlight(id)) => nextTask \in Range(execLog')
          /\ (\E id \in TaskIds : InFlight(id)) => nextTask \notin Range(execLog')]_vars

\* C10: a frame timer that fires after a newer session was started or after
\* reinitialize() renders no frame, plays no sound, emits no state change,
\* changes no playback state and schedules no further timer.
StaleTimerIsSilent ==
  [][\A id \in SessionIds :
       (timers[id] > 0 /\ id # animationId /\ fx'.op = "timer" /\ fx'.id = id)
         => /\ ~fx'.rendered
            /\ fx'.sound = ""
            /\ fx'.emitted = "none"
            /\ ~fx'.scheduled
            /\ timers' = [timers EXCEPT ![id] = @ - 1]
            /\ UNCHANGED <<animationId, currentFrameIndex, currentFrame,
                           currentAnimationName, currentAnimationData, shouldExit>>]_vars

\* the timer of an older session has fired while a newer session is running
WitnessStaleTimer ==
  /\ fx.op = "timer"
  /\ fx.stale
  /\ fx.id < animationId
  /\ observer[animationId] = "open"
  /\ timers[animationId] > 0

\* ------------------------------------------------ claims on the animation loop

\* the last operation was a processFrame() that got past the stale check
Ticked == fx.op \in {"play", "timer"} /\ ~fx.stale

\* the current session is live: started, neither completed nor invalidated
LiveSession ==
  /\ currentAnimationData # << >>
  /\ animationId \in SessionIds
  /\ observer[animationId] = "open"

\* C11: in a live session the current frame index is a valid index of the
\* current animation's frame list.
FrameIndexValid ==
  LiveSession => (0 <= currentFrameIndex /\ currentFrameIndex < NumFrames(AState))

\* C12: a session of an exit-branching animation that is at its final frame
\* index with no exit requested stays open with one frame timer scheduled, and
\* has emitted WAITING on the tick that brought it there; with exit requested
\* the tick emits no WAITING and schedules nothing.
WaitsAtFinalFrame ==
  (Ticked /\ Data(AState).useExitBranching /\ IsAtLastFrame(AState))
    => IF ~shouldExit
         THEN /\ observer[fx.id] = "open"
              /\ fx.scheduled
              /\ timers[fx.id] = 1
              /\ (fx.op = "play" \/ fx.prev # currentFrameIndex) => fx.emitted = "WAITING"
         ELSE /\ fx.emitted # "WAITING"
              /\ ~fx.scheduled

\* the session of IdleLoop has reached its final frame and waits
WitnessWaiting ==
  /\ fx.op = "timer"
  /\ fx.emitted = "WAITING"
  /\ currentAnimationName = "IdleLoop"
  /\ currentFrameIndex = 1
  /\ ~shouldExit
  /\ timers[animationId] = 1

\* C13: a tick of an exit-branching session that finds exit requested and
\* ends at the final frame emits EXITED and completes the session; a completed
\* session emits nothing more.
ExitEmitsExited ==
  /\ []((fx.op = "timer" /\ Ticked /\ Data(AState).useExitBranching /\ shouldExit
          /\ IsAtLastFrame(AState))
         => (fx.emitted = "EXITED" /\ observer[fx.id] = "complete"))
  /\ [][\A id \in SessionIds :
          (observer[id] = "complete" /\ fx'.op \in {"play", "timer"} /\ fx'.id = id)
            => fx'.emitted = "none"]_vars

\* an animation without useExitBranching, exitBranch and branching
PlainAnimation(s) ==
  /\ ~Data(s).useExitBranching
  /\ \A i \in DOMAIN Data(s).frames :
       Data(s).frames[i].exitBranch = -1 /\ Data(s).frames[i].branches = << >>

\* C14: a session of a plain animation of n frames renders frame 0 when it is
\* started and the next frame on every tick; on the tick that renders frame
\* n-1 it emits EXITED, completes and schedules nothing; before that it emits
\* nothing and keeps one timer.
PlainAnimationRunsThrough ==
  /\ []((Ticked /\ PlainAnimation(AState))
         => /\ fx.rendered
            /\ fx.frame = currentFrameIndex
            /\ currentFrameIndex = (IF fx.op = "play" THEN 0 ELSE fx.prev + 1)
            /\ currentFrameIndex < NumFrames(AState)
            /\ IF currentFrameIndex = NumFrames(AState) - 1
                 THEN fx.emitted = "EXITED" /\ observer[fx.id] = "complete"
                      /\ ~fx.scheduled /\ timers[fx.id] = 0
                 ELSE fx.emitted = "none" /\ observer[fx.id] = "open"
                      /\ fx.scheduled /\ timers[fx.id] = 1)
  /\ [][\A id \in SessionIds :
          (observer[id] = "complete" /\ fx'.op \in {"play", "timer"} /\ fx'.id = id)
            => (fx'.emitted = "none" /\ ~fx'.rendered)]_vars

\* the three frames of agent 2's Run have been rendered and the session is over
WitnessRunThrough ==
  /\ fx.op = "timer"
  /\ agent = 2
  /\ currentAnimationName = "Run"
  /\ fx.prev = 1
  /\ fx.frame = 2
  /\ fx.emitted = "EXITED"
  /\ observer[animationId] = "complete"

\* the sum of the weights of the first n branches
RECURSIVE CumulativeWeight(_, _)
CumulativeWeight(branches, n) ==
  IF n = 0 THEN 0 ELSE CumulativeWeight(branches, n - 1) + branches[n].weight

\* weighted selection as specified: the first branch whose cumulative weight
\* meets or exceeds the draw, index + 1 when the draw exceeds the total weight
CumulativeSelect(branches, draw, fallback) ==
  LET winners == {n \in DOMAIN branches : CumulativeWeight(branches, n) >= draw}
  IN IF winners = {} THEN fallback
     ELSE branches[CHOOSE n \in winners : \A m \in winners : n <= m].frameIndex

\* the frame held when the last processFrame() began
HeldBefore == Data(AState).frames[fx.held + 1]

\* C15: at a frame boundary the next frame index is the held frame's exitBranch
\* if exit has been requested and the frame defines one, otherwise the result
\* of the weighted selection if the frame has a branching table, otherwise the
\* index + 1.
NextFrameFollowsRules ==
  (fx.op = "timer" /\ Ticked /\ fx.held # -1)
    => currentFrameIndex =
         IF shouldExit /\ HeldBefore.exitBranch # -1 THEN HeldBefore.exitBranch
         ELSE IF HeldBefore.branches # << >>
           THEN CumulativeSelect(HeldBefore.branches, fx.random, fx.prev + 1)
         ELSE fx.prev + 1

\* exit was requested on a frame that has both an exitBranch and a branching
\* table, and the exitBranch was taken
WitnessExitBranchFirst ==
  /\ fx.op = "timer"
  /\ Ticked
  /\ currentAnimationName = "Branchy"
  /\ shouldExit
  /\ fx.held = 1
  /\ fx.prev = 1
  /\ currentFrameIndex = 2

\* C16: the weighted selection returns the frameIndex of the first branch whose
\* cumulative weight meets or exceeds the draw, and index + 1 when the draw
\* exceeds the total declared weight.
WeightedSelection ==
  (fx.op = "timer" /\ Ticked /\ fx.held # -1 /\ HeldBefore.branches # << >>
     /\ ~(shouldExit /\ HeldBefore.exitBranch # -1))
    => currentFrameIndex = CumulativeSelect(HeldBefore.branches, fx.random, fx.prev + 1)

\* a draw equal to the first weight has selected the first branch
WitnessDrawMeetsWeight ==
  /\ fx.op = "timer"
  /\ Ticked
  /\ currentAnimationName = "Branchy"
  /\ ~shouldExit
  /\ fx.held = 1
  /\ fx.random = 60
  /\ currentFrameIndex = 0

\* C17: playAnimation of a name the agent lacks renders nothing, emits nothing
\* and leaves the session, the epoch and the exit flag as they were.
MissingAnimationIsNoOp ==
  [][fx'.op = "playMissing"
       => /\ ~fx'.rendered
          /\ fx'.emitted = "none"
          /\ fx'.sound = ""
          /\ ~fx'.scheduled
          /\ UNCHANGED <<animationId, currentFrameIndex, currentFrame,
                         currentAnimationName, currentAnimationData, shouldExit,
                         timers, observer>>]_vars

\* an unknown animation was asked for while a session with exit requested runs
WitnessMissing ==
  /\ fx.op = "playMissing"
  /\ LiveSession
  /\ shouldExit
  /\ currentFrame # -1
  /\ timers[animationId] = 1

\* C18: a session never has two frame timers pending; a pending timer belongs
\* to the current session or to an older one, and only the current session
\* renders.
OneContinuationPerSession ==
  /\ \A id \in SessionIds : timers[id] <= 1 /\ (timers[id] > 0 => id <= animationId)
  /\ (fx.op \in {"play", "timer"} /\ fx.rendered) => fx.id = animationId

\* the current session and an older one both have a timer pending
WitnessTwoTimers ==
  /\ animationId = 2
  /\ timers[1] = 1
  /\ timers[2] = 1
  /\ observer[2] = "open"

\* ---------------------------------------------------- claims on the idle loop

\* a frame timer of session id has fired and rendered a frame in this step
IdleFrameRendered(id) ==
  /\ last'.op = "timer"
  /\ last'.id = id
  /\ fx'.rendered
  /\ sub[id].who = "idle"

\* C19: once an explicit task has been enqueued while an idle animation is
\* looping, no further idle-animation frame is rendered: a frame timer of an
\* idle session renders a frame only while the sequencer holds no task, in
\* flight or buffered.
IdleYieldsToTask ==
  [][\A id \in SessionIds :
       IdleFrameRendered(id) => (active = {} /\ buffer = << >>)]_vars

\* a session of the idle loop starts in this step
IdleSessionStarts(id) == sub[id].who # "idle" /\ sub'[id].who = "idle"

\* C20: an idle-animation session starts only as a consequence of an onEmpty
\* event (in the step that reports it, or in a timer(0) continuation of the
\* loop it started) and only while the agent is not hidden and the sequencer
\* holds no task, in flight or buffered.
IdleStartsOnlyWhenEmpty ==
  [][\A id \in SessionIds :
       IdleSessionStarts(id)
         => /\ ~isHidden'
            /\ active' = {}
            /\ buffer' = << >>
            /\ (queueEmptyCount' > queueEmptyCount \/ last'.op = "idleTimer")]_vars

\* an idle session has been started by the onEmpty that the end of a task gave
WitnessIdleStarted ==
  /\ last.op = "complete"
  /\ animationId \in SessionIds
  /\ sub[animationId].who = "idle"
  /\ fx.op = "play"
  /\ fx.id = animationId
  /\ ~isHidden
  /\ queueEmptyCount >= 1

\* the stream of idle session id completes in this step and the complete
\* callback of playNext() hears it
IdleCompletesHeard(id) ==
  /\ observer[id] # "complete"
  /\ observer'[id] = "complete"
  /\ sub'[id].who = "idle"
  /\ (sub[id].who = "idle" => sub[id].open)

\* C21: when an idle animation completes while the idle token is unchanged and
\* the agent is not hidden, the next idle step is scheduled with timer(0) and
\* no later session starts in the step of the completion; a continuation that
\* fires after the token was incremented or the agent was hidden starts no
\* animation.
IdleContinuesLater ==
  [][/\ \A id \in SessionIds :
          (IdleCompletesHeard(id) /\ ~isHidden' /\ sub'[id].token = idleLoopToken')
            => /\ idleLoopToken' \in idleTimers'
               /\ \A j \in SessionIds : j > id => ~IdleSessionStarts(j)
     /\ (last'.op = "idleTimer" /\ (isHidden \/ last'.id # idleLoopToken))
            => /\ animationId' = animationId
               /\ \A j \in SessionIds : ~IdleSessionStarts(j)]_vars

\* a frame timer has ended an idle session and the next step is scheduled
WitnessIdleContinuation ==
  /\ last.op = "timer"
  /\ sub[last.id].who = "idle"
  /\ observer[last.id] = "complete"
  /\ fx.emitted = "EXITED"
  /\ idleLoopToken \in idleTimers

\* a continuation whose token is stale is still pending
WitnessStaleContinuation == \E token \in idleTimers : token # idleLoopToken

\* an idle animation is playing for the current idle loop
IdlePlaying ==
  /\ animationId \in SessionIds
  /\ sub[animationId].who = "idle"
  /\ sub[animationId].open
  /\ observer[animationId] = "open"

\* the next step of the current idle loop is scheduled
IdleScheduled == idleLoopToken \in idleTimers

\* C22: whenever the sequencer has nothing in flight or buffered, the agent is
\* not hidden and it has an idle animation, an idle animation is playing or
\* the next idle step is scheduled.
IdleWheneverNothingQueued ==
  (Ready /\ active = {} /\ buffer = << >> /\ ~isHidden /\ IdleAnimations(agent) # {})
    => (IdlePlaying \/ IdleScheduled)

\* ------------------------------------------------ claims on the operations

\* the operations that the component queues
QueuedOps == {"show", "speak", "moveTo", "play", "delay", "hide"}

\* C23: actions take effect one after another in call order: an operation
\* called while an earlier action is still in flight has no effect of its own
\* (on the agent's visibility, on the animation played) in the step of the call.
ActionsInCallOrder ==
  [][(last'.op \in QueuedOps /\ active # {})
       => (isVisible' = isVisible /\ animationId' = animationId)]_vars

\* task id was enqueued before a clear() that has been called since
Cleared(id) == kind[id] # "none" /\ taskGen[id] < clearCalls

\* the action of task id renders an animation frame in this step
TaskFrameRendered(id) ==
  /\ last'.op = "timer"
  /\ fx'.rendered
  /\ sub[last'.id].who = "task"
  /\ sub[last'.id].task = id

\* the speech of task id writes text into the balloon in this step
TaskTextWritten(id) ==
  /\ last'.op = "speechTimer"
  /\ last'.id = id
  /\ balloonText' # balloonText

\* the speech of task id ends in this step before all its words were written
SpeechCutShort(id) ==
  /\ last'.op = "speechTimer"
  /\ last'.id = id
  /\ stream[id] = "open"
  /\ stream'[id] = "complete"
  /\ speech[id].index <= SpeechWords

\* C24: after stop() no action queued before it is started, the action that
\* was in flight has no further effect (no animation frame, no balloon text)
\* and an action enqueued afterwards is not cut short.
StopEndsEverything ==
  [][\A id \in TaskIds :
       /\ Cleared(id) => ~TaskFrameRendered(id) /\ ~TaskTextWritten(id)
       /\ (Cleared(id) /\ Len(execLog') > Len(execLog)) => execLog'[Len(execLog')] # id
       /\ ~Cleared(id) => ~SpeechCutShort(id)]_vars

\* stopCurrent() has just been called, or closeBalloon() for a held speech,
\* with task id in flight
EndRequested(id) ==
  /\ id \in active
  /\ \/ last.op = "stopCurrent"
     \/ last.op = "closeBalloon" /\ kind[id] = "speak" /\ taskHold[id]

\* C25: after stopCurrent(), or closeBalloon() for a speech held open, the
\* task in flight eventually ends and the sequencer moves on.
InFlightCanBeEnded == \A id \in TaskIds : EndRequested(id) ~> (id \notin active)

\* the queued hide() of task id completes in this step
HideCompletes(id) ==
  /\ kind'[id] = "hide"
  /\ stream[id] # "complete"
  /\ stream'[id] = "complete"

\* C26: after a queued hide() has completed, the agent is not visible, also
\* for agent data without a 'Hide' animation.
HiddenAfterHide == [][\A id \in TaskIds : HideCompletes(id) => ~isVisible']_vars

\* C27: after the component is disposed no further animation frame is
\* rendered, no idle animation is started and no queued task is started.
DisposalEndsEverything ==
  [][destroyed
       => /\ ~(last'.op = "timer" /\ fx'.rendered)
          /\ \A id \in SessionIds : ~IdleSessionStarts(id)
          /\ execLog' = execLog]_vars

\* the tasks whose execute() is invoked in this step
StartedNow == {execLog'[i] : i \in (Len(execLog) + 1)..Len(execLog')}

\* C28: a change of the agent configuration cancels the idle loop, discards
\* every task in flight or queued and invalidates the session of the previous
\* agent (animationId incremented by one, playback state reset); afterwards no
\* task of the previous agent starts and every frame rendered belongs to an
\* animation of the current agent.
ConfigChangeInvalidates ==
  [][/\ last'.op = "config"
          => /\ idleLoopToken' = idleLoopToken + 1
             /\ idleLoopSubscription' = NoSubscription
             /\ \A id \in SessionIds : sub'[id].who = "idle" => ~sub'[id].open
             /\ active' = {}
             /\ buffer' = << >>
             /\ pendingActions' = 0
             /\ animationId' = animationId + 1
             /\ currentFrameIndex' = 0
             /\ currentFrame' = -1
             /\ currentAnimationData' = << >>
     /\ \A id \in StartedNow : ~Cleared(id)
     /\ (last'.op = "timer" /\ fx'.rendered)
          => (currentAnimationData' # << >> /\ currentAnimationData'[1] = agent')]_vars

\* the configuration has changed while a task was in flight and a frame timer
\* of the previous agent's session was pending
WitnessConfigChange ==
  /\ last.op = "config"
  /\ last.act # {}
  /\ \E id \in SessionIds : timers[id] > 0 /\ id < animationId

\* C29: a play() that returns false changes nothing (no task enqueued, the
\* pending count unchanged, a running idle loop not cancelled); a play() that
\* returns true has enqueued exactly one task, for an animation the agent has;
\* and play() of an animation the agent lacks enqueues nothing.
PlayUnknownIsNoOp ==
  [][last'.op = "play"
       => IF last'.ret = "false"
            THEN /\ UNCHANGED <<pendingActions, alive, active, buffer, kind, stream,
                               taskGen, nextTask, execLog, clearCalls, clearedCount,
                               queueEmptyCount, tapCount>>
                 /\ UNCHANGED <<animationId, currentFrameIndex, currentFrame,
                               currentAnimationName, currentAnimationData, shouldExit,
                               agent, timers, observer>>
                 /\ UNCHANGED <<cvars, bvars>>
            ELSE /\ last'.ret = "true"
                 /\ nextTask' = nextTask + 1
                 /\ last'.id = nextTask
                 /\ kind'[nextTask] = "play"
                 /\ \A id \in TaskIds \ {nextTask} : kind'[id] = kind[id]
                 /\ HasAnimation(agent, taskAnim'[nextTask])
                 /\ idleLoopToken' > idleLoopToken]_vars

\* play() of an unknown animation has returned false while the idle loop runs
WitnessPlayUnknown ==
  /\ last.op = "play"
  /\ last.ret = "false"
  /\ IdlePlaying

\* ------------------------------------------------ claims on exitAnimation()

\* the next processFrame() of the current session, had the exit flag the value exit
NextTickWith(exit) ==
  ProcessFrame([AState EXCEPT !.shouldExit = exit, !.timers[animationId] = @ - 1],
               animationId, 0, "timer")

\* C30: for a plain animation exitAnimation() changes nothing observable: it
\* writes the exit flag only, and every processFrame() of the session renders
\* the same frame, emits the same event, sets the same timer and leaves the
\* same playback state whether the flag is set or not, so the frames rendered
\* and the one EXITED are those of a run without exitAnimation().
ExitChangesNothing ==
  /\ []((LiveSession /\ PlainAnimation(AState) /\ timers[animationId] > 0)
          => [NextTickWith(TRUE) EXCEPT !.shouldExit = FALSE] = NextTickWith(FALSE))
  /\ [][fx'.op = "exit"
          => UNCHANGED <<animationId, currentFrameIndex, currentFrame,
                         currentAnimationName, currentAnimationData, agent, timers,
                         observer>>]_vars

\* a session of a plain animation has ended after exitAnimation() was called in it
WitnessExitIgnored ==
  /\ fx.op = "timer"
  /\ ~fx.stale
  /\ shouldExit
  /\ PlainAnimation(AState)
  /\ fx.emitted = "EXITED"

\* ------------------------------------------------ claims on playFrameSound()

\* a value with the record of the sound left out
Muted(s) == [s EXCEPT !.audioBlocked = FALSE, !.fx.sound = "", !.fx.rejected = FALSE]

\* the next processFrame() of the current session, were play() rejected or not
TickWithAudio(blocked, random) ==
  ProcessFrame([AState EXCEPT !.audioBlocked = blocked, !.timers[animationId] = @ - 1],
               animationId, random, "timer")

\* the first processFrame() of a session of name, were play() rejected or not
FirstFrameWithAudio(blocked, name) ==
  ProcessFrame([Selected(AState, name) EXCEPT !.audioBlocked = blocked,
                                              !.animationId = SessionId(AState),
                                              !.observer[SessionId(AState)] = "open"],
               SessionId(AState), 0, "play")

\* C31: a sound that fails to play does not affect playback: the first
\* processFrame() of a session and every later one render the same frame,
\* emit the same state change, complete or not alike, set the same timer and
\* leave the same playback state whether play() is rejected or not; the
\* rejection itself writes nothing.
SoundFailureHarmless ==
  /\ [](/\ (LiveSession /\ timers[animationId] > 0)
             => \A random \in Draws :
                  Muted(TickWithAudio(TRUE, random)) = Muted(TickWithAudio(FALSE, random))
        /\ \A name \in DOMAIN Animations(agent) :
             SessionId(AState) \in SessionIds
               => Muted(FirstFrameWithAudio(TRUE, name)) = Muted(FirstFrameWithAudio(FALSE, name)))
  /\ [][fx'.op = "audio"
          => UNCHANGED <<animationId, currentFrameIndex, currentFrame,
                         currentAnimationName, currentAnimationData, shouldExit, agent,
                         timers, observer>>]_vars

\* play() was rejected in a processFrame() from a timer, which has set the next timer
WitnessSoundRejected ==
  /\ fx.op = "timer"
  /\ fx.rejected
  /\ fx.sound = ""
  /\ fx.scheduled

\* ------------------------------------------------ claims on the frame delay

\* the duration of the frame the last processFrame() rendered; 0 when the
\* frame gives none or no frame is held
RenderedDuration ==
  IF fx.frame = -1 THEN 0 ELSE Data(AState).frames[fx.frame + 1].duration

WitnessFrameDelay ==
  /\ Ticked
  /\ fx.scheduled
  /\ RenderedDuration = 5
  /\ fx.delay = 5

\* ------------------------------------------------ claims on pending-count

\* C33: in every reachable state pendingActions is the number of tasks the
\* running pipeline holds: the one in flight and the buffered ones.
PendingCountsQueue == pendingActions = Cardinality(active) + Len(buffer)

\* ------------------------------------------------ claims on handlers that enqueue

\* the client's handler is notified in this step and enqueues its task
HandlerRuns(on) == handler.on = on /\ handler'.on = "done"

\* the task is held by the pipeline, to be started in its turn, or has run
Kept(id) == id \in active \/ id \in Range(buffer) \/ stream[id] = "complete"

\* C34: a task enqueued from inside an onCleared or an onEmpty handler is not
\* lost: when the operation that notified the handler returns, the task is in
\* flight, buffered or completed, and pendingActions counts the tasks in
\* flight and buffered.
HandlerTaskNotLost ==
  [][\A on \in {"empty", "cleared"} :
       HandlerRuns(on) => /\ Kept(handler.task)'
                          /\ pendingActions' = Cardinality(active') + Len(buffer')]_vars

\* ------------------------------------------------ claims on visibility

\* nothing is in flight or buffered
Quiescent == active = {} /\ buffer = << >>

\* C35: whenever the sequencer is quiescent the container is visible if and
\* only if the agent is not hidden.
VisibleIffNotHidden == Quiescent => (isVisible <=> ~isHidden)

\* ------------------------------------------------ claims on the exit timer of play()

\* the current session is the one task id has started
SessionOf(id) ==
  /\ animationId \in SessionIds
  /\ sub[animationId].who = "task"
  /\ sub[animationId].task = id

\* C36: an exit timer is pending only for a play(name, timeout > 0) task that
\* is in flight: it is cleared when the task completes or is discarded by
\* clear(). When it fires, the current session is the one its task started,
\* never that of a later task or of the idle loop.
ExitTimerOwnTask ==
  /\ [](\A id \in exitTimers :
          id \in active /\ stream[id] = "open" /\ kind[id] = "play" /\ SessionOf(id))
  /\ [][last'.op = "exitTimer" => (SessionOf(last'.id) /\ last'.id \in active)]_vars

\* clear() has discarded a task in flight that had armed its exit timer
WitnessExitTimerCleared ==
  /\ last.op = "stop"
  /\ \E id \in last.act : kind[id] = "play"
  /\ exitTimers = {}

\* a task that had armed its exit timer has completed and the idle loop plays
WitnessExitTimerCompleted ==
  /\ last.op = "timer"
  /\ \E id \in last.act : kind[id] = "play" /\ stream[id] = "complete"
  /\ animationId \in SessionIds
  /\ sub[animationId].who = "idle"
  /\ exitTimers = {}

\* ------------------------------------------------ claims on the exit flag

\* playAnimation() starts session id in this step
SessionStarts(id) == observer[id] = "none" /\ observer'[id] # "none"

\* C37: an exit request does not carry over: when an operation has started a
\* session the exit flag is clear, whatever it was before, and the first
\* processFrame() of the session has run with the flag clear.
ExitFlagClearAtStart ==
  [][(\E id \in SessionIds : SessionStarts(id)) => ~shouldExit']_vars

\* reinitialize() has set the exit flag and consumed the id before the
\* current one; the session playAnimation() started after it has the flag clear
WitnessExitFlagReset ==
  /\ fx.op = "play"
  /\ animationId \in SessionIds
  /\ animationId > 1
  /\ observer[animationId - 1] = "none"
  /\ observer[animationId] = "open"
  /\ ~shouldExit

\* ------------------------------------------------ claims on WAITING

\* the last operation was a processFrame() from a timer of a session that was
\* waiting: it began at or past the final index of an exit-branching
\* animation, holding a frame without branching, and no exit is requested
WaitingTick ==
  /\ fx.op = "timer"
  /\ ~fx.stale
  /\ currentAnimationData # << >>
  /\ Data(AState).useExitBranching
  /\ ~shouldExit
  /\ fx.held # -1
  /\ Data(AState).frames[fx.held + 1].branches = << >>
  /\ fx.prev >= NumFrames(AState) - 1

\* C38: a session emits a state change only on the tick on which it arrives
\* at the final frame: a tick of a session that is waiting there emits no
\* further WAITING.
WaitingEmittedOnce == WaitingTick => fx.emitted = "none"

\* ------------------------------------------------ claims on speakStream()

\* the subscription id has come to its end: the source has finished or
\* thrown, or the subscriber has unsubscribed
StreamOver(id) == streams[id].run # "none" /\ (streams[id].run = "ended" \/ ~streams[id].open)

\* C39: for every subscription of speakStream() done() is called exactly once
\* when the source finishes, when it throws and when the subscriber
\* unsubscribes first, never twice, and no chunk is pushed after done().
DoneExactlyOnce ==
  \A id \in StreamIds :
    /\ streams[id].doneCalls <= 1
    /\ StreamOver(id) => streams[id].doneCalls = 1
    /\ streams[id].doneCalls = 1 <=> streams[id].finished
    /\ streams[id].late = 0

\* the subscriber has unsubscribed first, then the source has given a chunk
\* and run() has returned: done() was called once and the chunk was dropped
WitnessUnsubscribedFirst ==
  \E id \in StreamIds :
    /\ last.op = "chunk"
    /\ last.id = id
    /\ streams[id].run = "ended"
    /\ streams[id].result = "none"
    /\ streams[id].doneCalls = 1
    /\ streams[id].chunks = 1

\* a source has thrown after a chunk and another has finished
WitnessSourceThrew ==
  \E id, other \in StreamIds :
    /\ streams[id].result = "error"
    /\ streams[id].chunks = 1
    /\ streams[id].doneCalls = 1
    /\ streams[other].result = "complete"
    /\ streams[other].doneCalls = 1

====
